---- MODULE Spec2Model ----
(***************************************************************************)
(* Model of the step execution engine of                                   *)
(* src/core/workflow_automation_engine.js (WorkflowAutomationEngine).      *)
(*                                                                         *)
(* The durable store is the table llc_formation.workflows: one row per     *)
(* workflow with the serialized workflow_data and a status column.  Every  *)
(* executeWorkflowStep call works on its own deserialized copy of          *)
(* workflow_data; the awaits of the method are the points where calls      *)
(* interleave.                                                             *)
(***************************************************************************)
EXTENDS Integers, FiniteSets, Sequences, TLC

(* Number of executeWorkflowStep calls issued in one behaviour; they may *)
(* all be in flight together.                                            *)
NumCalls == 2

(* Saturation of the count of external effects per step. *)
MaxEffects == 2

Calls == 1..NumCalls

(***************************************************************************)
(* stateWorkflows: the steps of a base workflow, in order.  FL, WY and IL  *)
(* list the same step ids with the same critical flags.                    *)
(***************************************************************************)
stateWorkflowSteps ==
    << "name_check", "name_reservation", "registered_agent", "articles_prep",
       "articles_filing", "ein_application", "operating_agreement",
       "business_licenses", "compliance_setup" >>

StepIds == { stateWorkflowSteps[i] : i \in 1..Len(stateWorkflowSteps) }

criticalSteps ==
    { "name_check", "registered_agent", "articles_prep", "articles_filing",
      "ein_application", "compliance_setup" }

(* The workflow a behaviour of the step engine starts with, and the step *)
(* ids a caller may pass.                                               *)
SeedWorkflowIds == { "WF-FL-1" }
CallStepIds == StepIds \cup { "unknown_step" }
ThrowArgs == { << "WF-FL-1", "name_check" >> }

(* Variant: the first step waits for the last one. *)
getStepDependenciesCyclic(stepId) ==
    CASE stepId = "name_check"          -> { "compliance_setup" }
      [] stepId = "name_reservation"    -> { "name_check" }
      [] stepId = "registered_agent"    -> { "name_check" }
      [] stepId = "articles_prep"       -> { "name_check", "registered_agent" }
      [] stepId = "articles_filing"     -> { "articles_prep" }
      [] stepId = "ein_application"     -> { "articles_filing" }
      [] stepId = "operating_agreement" -> { "ein_application" }
      [] stepId = "business_licenses"   -> { "articles_filing" }
      [] stepId = "compliance_setup"    -> { "articles_filing" }
      [] OTHER                          -> {}

(* Lines 569-583. *)
getStepDependencies(stepId) ==
    CASE stepId = "name_check"          -> {}
      [] stepId = "name_reservation"    -> { "name_check" }
      [] stepId = "registered_agent"    -> { "name_check" }
      [] stepId = "articles_prep"       -> { "name_check", "registered_agent" }
      [] stepId = "articles_filing"     -> { "articles_prep" }
      [] stepId = "ein_application"     -> { "articles_filing" }
      [] stepId = "operating_agreement" -> { "ein_application" }
      [] stepId = "business_licenses"   -> { "articles_filing" }
      [] stepId = "compliance_setup"    -> { "articles_filing" }
      [] OTHER                          -> {}

(***************************************************************************)
(* checkStepDependencies: the dependencies of stepId that are not          *)
(* completed in the given workflow object, and allCompleted.               *)
(***************************************************************************)
(* Variant: only a pending dependency counts as missing. *)
missingDependenciesPendingOnly(wf, stepId) ==
    { depId \in getStepDependencies(stepId) :
        depId \notin StepIds \/ wf.steps[depId] = "pending" }

missingDependencies(wf, stepId) ==
    { depId \in getStepDependencies(stepId) :
        depId \notin StepIds \/ wf.steps[depId] # "completed" }

(* Variant: one completed dependency is enough. *)
checkStepDependenciesSome(wf, stepId) ==
    \/ getStepDependencies(stepId) = {}
    \/ missingDependencies(wf, stepId) # getStepDependencies(stepId)

checkStepDependencies(wf, stepId) ==
    missingDependencies(wf, stepId) = {}

(***************************************************************************)
(* workflow.progress = (completedSteps / workflow.steps.length) * 100.     *)
(* The value is kept exactly, as the numerator of a fraction whose         *)
(* denominator is the number of steps: progress 100 is 100 * NumSteps.     *)
(***************************************************************************)
NumSteps == Len(stateWorkflowSteps)

completedSteps(steps) == Cardinality({ s \in StepIds : steps[s] = "completed" })

(* A progress that counts every step that has left pending. *)
computeProgressNotPending(steps) ==
    Cardinality({ s \in StepIds : steps[s] # "pending" }) * 100

computeProgress(steps) == completedSteps(steps) * 100

progressIs100(wf) == wf.progress = 100 * NumSteps

(***************************************************************************)
(* The delegated work of a step (the switch of executeWorkflowStep): the   *)
(* set of values result.success can take.  executeNameCheck succeeds iff   *)
(* the business name contains "llc"; the three document steps return what  *)
(* the document engine returns (or failure when it throws); the others     *)
(* always succeed.                                                         *)
(***************************************************************************)
documentSteps == { "articles_prep", "ein_application", "operating_agreement" }

executeStepOutcomes(wf, stepId) ==
    IF stepId = "name_check" THEN { wf.nameValid }
    ELSE IF stepId \in documentSteps THEN { TRUE, FALSE }
    ELSE { TRUE }

(* Variant: the status ignores result.success. *)
stepStatusAlwaysCompleted(success) == "completed"

stepStatusOf(success) == IF success THEN "completed" ELSE "failed"

(* createFormationWorkflow: the workflow_data of a new workflow. *)
newWorkflow(nameValid) ==
    [ steps     |-> [ s \in StepIds |-> "pending" ],
      progress  |-> 0,
      nameValid |-> nameValid ]

(* The local variable `workflow` of a call that holds no workflow. *)
NoWorkflow ==
    [ steps     |-> [ s \in StepIds |-> "none" ],
      progress  |-> 0,
      nameValid |-> FALSE ]

VARIABLES
    workflow_data,   \* llc_formation.workflows: workflow_data column, per id
    row_status,      \* llc_formation.workflows: status column, per id
    pc,              \* per call: the await the call is suspended at
    callWorkflowId,  \* per call: argument workflowId
    callStepId,      \* per call: argument stepId
    workflow,        \* per call: the local deserialized workflow
    result,          \* per call: result.success of the delegated work
    response,        \* per call: what the call returned
    sideEffects,     \* per workflow and step: external effects taken (saturating)
    now,             \* the clock: the position in ClockInstants
    timezone,        \* hours the local time of the process is behind UTC
    compliance_calendars, \* llc_formation.compliance_calendars: the rows, in order
    apiResponse,     \* per call: what a call of another operation returned
    players,         \* gameState.players of the game server: id -> player
    dailyQuests,     \* gameState.dailyQuests: quest id -> progress
    gameCalls,       \* per request slot of the game server: the request
    requestCount,    \* requests the game server has accepted so far
    formationWorkflow, \* LLCFormationEngine: stored status of each step of the project
    stepRuns,        \* LLCFormationEngine: runs of the handler of each step
    formationCalls   \* LLCFormationEngine: executeWorkflowStep calls so far

workflowVars == << workflow_data, row_status, pc, callWorkflowId, callStepId,
                   workflow, result, response, sideEffects >>

complianceVars == << now, timezone, compliance_calendars, apiResponse >>

gameVars == << players, dailyQuests, gameCalls, requestCount >>

formationVars == << formationWorkflow, stepRuns, formationCalls >>

vars == << workflow_data, row_status, pc, callWorkflowId, callStepId,
           workflow, result, response, sideEffects,
           now, timezone, compliance_calendars, apiResponse,
           players, dailyQuests, gameCalls, requestCount,
           formationWorkflow, stepRuns, formationCalls >>

(* Requests of the game server that may be in flight at once. *)
NumGameCalls == 2
GameCalls == 1..NumGameCalls

NoRequest == [ op |-> "none", phase |-> "free" ]

(* gameState.dailyQuests at start and after resetDailyQuests: no progress. *)
noQuestProgress == [ mint_3 |-> 0, verify_5 |-> 0, audit_chain |-> 0 ]

(* The game server after start: no player, no quest progress, no request. *)
GameIdle ==
    /\ players = << >>
    /\ dailyQuests = noQuestProgress
    /\ gameCalls = [ r \in GameCalls |-> NoRequest ]
    /\ requestCount = 0

(* LLCFormationEngine, lines 173-255: the steps of a formation workflow. *)
formationSteps ==
    << "name_reservation", "articles_preparation", "registered_agent",
       "state_filing", "operating_agreement", "ein_application",
       "business_licenses", "tax_elections", "compliance_setup" >>

FormationStepIds == { formationSteps[k] : k \in 1..Len(formationSteps) }

(* The formation project createFormationWorkflow has stored: every step *)
(* pending, no handler run, no executeWorkflowStep call made.           *)
FormationIdle ==
    /\ formationWorkflow = [ s \in FormationStepIds |-> "pending" ]
    /\ stepRuns = [ s \in FormationStepIds |-> 0 ]
    /\ formationCalls = 0

(* Workflow ids present in the table, and the arguments a caller may pass. *)
WorkflowIds == DOMAIN workflow_data
CallArgs == (WorkflowIds \X CallStepIds) \cup { << "WF-unknown", "name_check" >> }

(***************************************************************************)
(* The step statuses that serial executeWorkflowStep calls leave in the    *)
(* store: a step is completed or failed only when its dependencies are     *)
(* completed and its delegated work can end that way.                      *)
(***************************************************************************)
storedSteps(nameValid) ==
    { steps \in [ StepIds -> { "pending", "completed", "failed" } ] :
        \A s \in StepIds :
          /\ steps[s] # "pending" =>
               \A d \in getStepDependencies(s) : steps[d] = "completed"
          /\ steps[s] = "completed" =>
               TRUE \in executeStepOutcomes([ nameValid |-> nameValid ], s)
          /\ steps[s] = "failed" =>
               FALSE \in executeStepOutcomes([ nameValid |-> nameValid ], s) }

(***************************************************************************)
(* The compliance engine after construction: no calendar stored, nothing   *)
(* returned yet.  The local time zone of the process is UTC or US Central  *)
(* (6 hours behind UTC), the zone of IL.                                   *)
(***************************************************************************)
TimeZones == { 0, 6 }

NoResponse == [ op |-> "none" ]

ComplianceInit ==
    /\ now = 1
    /\ timezone \in TimeZones
    /\ compliance_calendars = << >>
    /\ apiResponse = [ c \in Calls |-> NoResponse ]

(***************************************************************************)
(* The store holds one workflow made by createFormationWorkflow on which   *)
(* some executeWorkflowStep calls have already run one after the other;    *)
(* no call is in flight.                                                   *)
(***************************************************************************)
Init ==
    /\ \E nameValid \in BOOLEAN : \E steps \in storedSteps(nameValid) :
         /\ workflow_data =
              [ w \in SeedWorkflowIds |->
                  [ newWorkflow(nameValid) EXCEPT
                      !.steps = steps, !.progress = computeProgress(steps) ] ]
         /\ row_status =
              [ w \in SeedWorkflowIds |->
                  IF completedSteps(steps) = NumSteps THEN "completed"
                                                     ELSE "created" ]
         /\ sideEffects =
              [ w \in SeedWorkflowIds |->
                  [ s \in StepIds |-> IF steps[s] = "completed" THEN 1 ELSE 0 ] ]
    /\ pc = [ c \in Calls |-> "idle" ]
    /\ callWorkflowId = [ c \in Calls |-> "none" ]
    /\ callStepId = [ c \in Calls |-> "none" ]
    /\ workflow = [ c \in Calls |-> NoWorkflow ]
    /\ result = [ c \in Calls |-> "none" ]
    /\ response = [ c \in Calls |-> "none" ]
    /\ ComplianceInit
    /\ timezone = 0
    /\ GameIdle
    /\ FormationIdle

(* The call returns: its locals go out of scope. *)
Return(c, resp) ==
    /\ pc' = [ pc EXCEPT ![c] = "done" ]
    /\ workflow' = [ workflow EXCEPT ![c] = NoWorkflow ]
    /\ response' = [ response EXCEPT ![c] = resp ]

(* A caller issues executeWorkflowStep(workflowId, stepId). *)
Issue(c, workflowId, stepId) ==
    /\ pc[c] = "idle"
    /\ callWorkflowId' = [ callWorkflowId EXCEPT ![c] = workflowId ]
    /\ callStepId' = [ callStepId EXCEPT ![c] = stepId ]

(* Variant: the completed check never fires. *)
stepAlreadyCompletedNever(wf, stepId) == wf.steps[stepId] = "complete"

(* Variant: a failed step counts as done too. *)
stepAlreadyLeftPending(wf, stepId) == wf.steps[stepId] # "pending"

(* Line 222: the step of the selected workflow is already completed. *)
stepAlreadyCompleted(wf, stepId) == wf.steps[stepId] = "completed"

(***************************************************************************)
(* executeWorkflowStep, lines 204-271: the SELECT returns the stored       *)
(* workflow; not-found, already-completed and unmet dependencies return;   *)
(* otherwise the step is marked in_progress in the local workflow and the  *)
(* delegated work is started.                                              *)
(***************************************************************************)
BeginStep(c, workflowId, stepId) ==
    /\ Issue(c, workflowId, stepId)
    /\ IF workflowId \notin WorkflowIds
         THEN Return(c, "Error: Workflow not found")
       ELSE IF stepId \notin StepIds
         THEN Return(c, "Error: Step not found in workflow")
       ELSE IF stepAlreadyCompleted(workflow_data[workflowId], stepId)
         THEN Return(c, "Step already completed")
       ELSE IF ~ checkStepDependencies(workflow_data[workflowId], stepId)
         THEN Return(c, "Dependencies not completed")
       ELSE /\ pc' = [ pc EXCEPT ![c] = "executing" ]
            /\ workflow' = [ workflow EXCEPT
                               ![c] = [ workflow_data[workflowId] EXCEPT
                                          !.steps[stepId] = "in_progress" ] ]
            /\ response' = [ response EXCEPT ![c] = "none" ]
    /\ UNCHANGED << workflow_data, row_status, result, sideEffects >>
    /\ UNCHANGED complianceVars
    /\ UNCHANGED << gameVars, formationVars >>

(* The SELECT rejects: the catch returns the error. *)
SelectThrows(c, workflowId, stepId) ==
    /\ Issue(c, workflowId, stepId)
    /\ Return(c, "Error: store")
    /\ UNCHANGED << workflow_data, row_status, result, sideEffects >>
    /\ UNCHANGED complianceVars
    /\ UNCHANGED << gameVars, formationVars >>

(***************************************************************************)
(* The delegated work returns; lines 273-284 set the step status and the   *)
(* progress in the local workflow and issue the UPDATE.  A successful work *)
(* has taken its external effect.                                          *)
(***************************************************************************)
ExecuteStep(c) ==
    /\ pc[c] = "executing"
    /\ \E success \in executeStepOutcomes(workflow[c], callStepId[c]) :
         LET steps == [ workflow[c].steps EXCEPT
                          ![callStepId[c]] = stepStatusOf(success) ]
             w == callWorkflowId[c]
             s == callStepId[c]
         IN  /\ result' = [ result EXCEPT
                              ![c] = IF success THEN "success" ELSE "failure" ]
             /\ workflow' = [ workflow EXCEPT
                                ![c] = [ workflow[c] EXCEPT
                                           !.steps = steps,
                                           !.progress = computeProgress(steps) ] ]
             /\ sideEffects' =
                  IF success /\ sideEffects[w][s] < MaxEffects
                    THEN [ sideEffects EXCEPT ![w][s] = @ + 1 ]
                    ELSE sideEffects
    /\ pc' = [ pc EXCEPT ![c] = "update" ]
    /\ UNCHANGED << workflow_data, row_status, callWorkflowId, callStepId,
                    response >>
    /\ UNCHANGED complianceVars
    /\ UNCHANGED << gameVars, formationVars >>

(* Lines 311-317: the response of a call that ran the delegated work. *)
executed(c) ==
    IF result[c] = "success" THEN "Executed: step completed"
                             ELSE "Executed: step failed"

(* Variant: the UPDATE has no WHERE clause. *)
updateEveryWorkflow(rows, workflowId, wf) == [ w \in DOMAIN rows |-> wf ]

(* Lines 284-288: UPDATE ... SET workflow_data = ... WHERE workflow_id. *)
updateWorkflowData(rows, workflowId, wf) == [ rows EXCEPT ![workflowId] = wf ]

(***************************************************************************)
(* Lines 284-317: the UPDATE stores the whole local workflow and           *)
(* memory.storeMemory resolves; when the local progress is 100 the call    *)
(* goes on to completeWorkflow, otherwise it returns.                      *)
(***************************************************************************)
UpdateWorkflow(c) ==
    /\ pc[c] = "update"
    /\ workflow_data' =
         updateWorkflowData(workflow_data, callWorkflowId[c], workflow[c])
    /\ IF progressIs100(workflow[c])
         THEN /\ pc' = [ pc EXCEPT ![c] = "complete" ]
              /\ UNCHANGED << workflow, response >>
         ELSE Return(c, executed(c))
    /\ UNCHANGED << row_status, callWorkflowId, callStepId, result, sideEffects >>
    /\ UNCHANGED complianceVars
    /\ UNCHANGED << gameVars, formationVars >>

(* The UPDATE stores the workflow, then memory.storeMemory rejects. *)
StoreMemoryThrows(c) ==
    /\ pc[c] = "update"
    /\ workflow_data' =
         updateWorkflowData(workflow_data, callWorkflowId[c], workflow[c])
    /\ Return(c, "Error: memory")
    /\ UNCHANGED << row_status, callWorkflowId, callStepId, result, sideEffects >>
    /\ UNCHANGED complianceVars
    /\ UNCHANGED << gameVars, formationVars >>

(* The UPDATE rejects: nothing is stored and the catch returns the error. *)
UpdateThrows(c) ==
    /\ pc[c] = "update"
    /\ Return(c, "Error: store")
    /\ UNCHANGED << workflow_data, row_status, callWorkflowId, callStepId,
                    result, sideEffects >>
    /\ UNCHANGED complianceVars
    /\ UNCHANGED << gameVars, formationVars >>

(* completeWorkflow: the UPDATE of the status column, then the return. *)
CompleteWorkflow(c) ==
    /\ pc[c] = "complete"
    /\ row_status' = [ row_status EXCEPT ![callWorkflowId[c]] = "completed" ]
    /\ Return(c, executed(c))
    /\ UNCHANGED << workflow_data, callWorkflowId, callStepId, result,
                    sideEffects >>
    /\ UNCHANGED complianceVars
    /\ UNCHANGED << gameVars, formationVars >>

(* The UPDATE of completeWorkflow rejects: the catch returns the error. *)
CompleteWorkflowThrows(c) ==
    /\ pc[c] = "complete"
    /\ Return(c, "Error: store")
    /\ UNCHANGED << workflow_data, row_status, callWorkflowId, callStepId,
                    result, sideEffects >>
    /\ UNCHANGED complianceVars
    /\ UNCHANGED << gameVars, formationVars >>

Next ==
    \E c \in Calls :
        \/ \E args \in CallArgs : BeginStep(c, args[1], args[2])
        \/ \E args \in ThrowArgs : SelectThrows(c, args[1], args[2])
        \/ ExecuteStep(c)
        \/ UpdateWorkflow(c)
        \/ StoreMemoryThrows(c)
        \/ UpdateThrows(c)
        \/ CompleteWorkflow(c)
        \/ CompleteWorkflowThrows(c)

Spec == Init /\ [][Next]_vars

(***************************************************************************)
(* Vocabulary of the properties.                                           *)
(***************************************************************************)
TypeOK ==
    /\ \A c \in Calls : pc[c] \in { "idle", "executing", "update", "complete",
                                    "automating", "done" }
    /\ \A w \in WorkflowIds : row_status[w] \in { "created", "completed" }

(* The call holds a local workflow: it is between its SELECT and its return. *)
InFlight(c) == pc[c] \in { "executing", "update", "complete" }

(* The call takes its first step: the SELECT resolves. *)
Begins(c) == pc[c] = "idle" /\ pc'[c] # "idle"

(* The call leaves the await of its UPDATE. *)
LeavesUpdate(c) == pc[c] = "update" /\ pc'[c] # "update"

StoreUnchanged ==
    /\ workflow_data' = workflow_data
    /\ row_status' = row_status

(***************************************************************************)
(* C1.  A step is in_progress (or past it: completed, failed) only with    *)
(* every dependency completed: in the local workflow of every call in      *)
(* flight, where the step is marked in_progress, and in the stored         *)
(* workflow, each step that has left pending has all its dependencies      *)
(* completed in that same workflow object.                                 *)
(***************************************************************************)
dependenciesCompleted(wf) ==
    \A s \in StepIds :
        wf.steps[s] \in { "in_progress", "completed", "failed" } =>
            \A d \in getStepDependencies(s) : wf.steps[d] = "completed"

InProgressOnlyAfterDependencies ==
    /\ \A w \in WorkflowIds : dependenciesCompleted(workflow_data[w])
    /\ \A c \in Calls :
         InFlight(c) =>
           /\ workflow[c].steps[callStepId[c]] \in
                { "in_progress", "completed", "failed" }
           /\ dependenciesCompleted(workflow[c])

(* A call has marked in_progress a step that has two dependencies. *)
InProgressWithDependenciesReached ==
    \E c \in Calls :
        /\ pc[c] = "executing"
        /\ callStepId[c] = "articles_prep"
        /\ workflow[c].steps["articles_prep"] = "in_progress"
        /\ workflow[c].steps["name_check"] = "completed"
        /\ workflow[c].steps["registered_agent"] = "completed"

(***************************************************************************)
(* C2.  Two concurrent calls on the same (workflowId, stepId) yield one    *)
(* execution of the delegated work: no two calls on the same workflow and  *)
(* step are past the in_progress mark at the same time.                    *)
(***************************************************************************)
OneExecutionInFlight ==
    \A c1, c2 \in Calls :
        ( /\ c1 # c2
          /\ InFlight(c1)
          /\ InFlight(c2)
          /\ callWorkflowId[c1] = callWorkflowId[c2] )
        => callStepId[c1] # callStepId[c2]

(***************************************************************************)
(* C3.  A call on a step one of whose dependencies is not completed in the *)
(* store returns the dependency error and changes nothing in the store.    *)
(***************************************************************************)
DependencyNotSatisfiedNoMutation ==
    [][ \A c \in Calls :
          ( /\ Begins(c)
            /\ response'[c] # "Error: store"
            /\ callWorkflowId'[c] \in WorkflowIds
            /\ callStepId'[c] \in StepIds
            /\ \E d \in getStepDependencies(callStepId'[c]) :
                 workflow_data[callWorkflowId'[c]].steps[d] # "completed" )
          => ( /\ pc'[c] = "done"
               /\ response'[c] = "Dependencies not completed"
               /\ StoreUnchanged
               /\ sideEffects' = sideEffects ) ]_vars

(* articles_prep was refused with name_check completed, registered_agent pending. *)
DependencyNotSatisfiedReached ==
    \E c \in Calls :
        /\ pc[c] = "done"
        /\ response[c] = "Dependencies not completed"
        /\ callStepId[c] = "articles_prep"
        /\ workflow_data[callWorkflowId[c]].steps["name_check"] = "completed"
        /\ workflow_data[callWorkflowId[c]].steps["registered_agent"] = "pending"
        /\ workflow_data[callWorkflowId[c]].steps["articles_prep"] = "pending"

(***************************************************************************)
(* C4.  The stored status of a step changes only along the edges           *)
(* pending -> in_progress -> {completed, failed} and failed -> in_progress *)
(* (the in_progress mark being the one of the call that stores the         *)
(* change): a stored status never leaves completed and never returns to    *)
(* pending.                                                                *)
(***************************************************************************)
statusPath(old, new) ==
    \/ old = new
    \/ old \in { "pending", "failed" } /\ new \in { "completed", "failed" }

StatusEdgesOnly ==
    [][ \A w \in WorkflowIds : \A s \in StepIds :
          statusPath(workflow_data[w].steps[s], workflow_data'[w].steps[s]) ]_vars

(***************************************************************************)
(* C5.  A call on a step that is completed in the store runs no delegated  *)
(* work, changes nothing in the store and returns "Step already            *)
(* completed".                                                             *)
(***************************************************************************)
AlreadyCompletedNoEffect ==
    [][ \A c \in Calls :
          ( /\ Begins(c)
            /\ response'[c] # "Error: store"
            /\ callWorkflowId'[c] \in WorkflowIds
            /\ callStepId'[c] \in StepIds
            /\ workflow_data[callWorkflowId'[c]].steps[callStepId'[c]] = "completed" )
          => ( /\ pc'[c] = "done"
               /\ response'[c] = "Step already completed"
               /\ result'[c] = "none"
               /\ StoreUnchanged
               /\ sideEffects' = sideEffects ) ]_vars

(* A call on a completed step has returned. *)
AlreadyCompletedReached ==
    \E c \in Calls :
        /\ pc[c] = "done"
        /\ response[c] = "Step already completed"
        /\ workflow_data[callWorkflowId[c]].steps[callStepId[c]] = "completed"

(***************************************************************************)
(* C6.  The external action of a step takes effect at most once, also when *)
(* the caller retries after a failed commit: a call that starts while no   *)
(* other call is in flight does not run the delegated work of a step whose *)
(* external effect has already been taken.                                 *)
(***************************************************************************)
RetryDoesNotRepeatEffect ==
    [][ \A c \in Calls :
          ( /\ Begins(c)
            /\ pc'[c] = "executing"
            /\ \A other \in Calls \ { c } : ~ InFlight(other) )
          => sideEffects[callWorkflowId'[c]][callStepId'[c]] = 0 ]_vars

(***************************************************************************)
(* C7 as claimed.  When the delegated work of a call has failed, the call  *)
(* records no status transition: the stored status of its step is left as *)
(* it was, pending or failed.                                              *)
(***************************************************************************)
FailedWorkRecordsNoTransition ==
    [][ \A c \in Calls :
          ( LeavesUpdate(c) /\ result[c] = "failure" )
          => LET w == callWorkflowId[c]
                 s == callStepId[c]
             IN  /\ workflow_data'[w].steps[s] = workflow_data[w].steps[s]
                 /\ workflow_data'[w].steps[s] \in { "pending", "failed" } ]_vars

(***************************************************************************)
(* C7 as amended.  When the delegated work of a call has failed, the       *)
(* UPDATE of the call stores its step as failed, never as completed, and   *)
(* leaves the status column alone; when the UPDATE rejects, the store is   *)
(* unchanged.                                                              *)
(***************************************************************************)
FailedWorkRecordsFailed ==
    [][ \A c \in Calls :
          ( LeavesUpdate(c) /\ result[c] = "failure" )
          => LET w == callWorkflowId[c]
                 s == callStepId[c]
             IN  /\ row_status' = row_status
                 /\ IF response'[c] = "Error: store"
                      THEN workflow_data' = workflow_data
                      ELSE workflow_data'[w].steps[s] = "failed" ]_vars

(* A call whose work failed has stored its step, pending before, as failed. *)
FailedWorkStoredReached ==
    \E c \in Calls :
        /\ pc[c] = "done"
        /\ result[c] = "failure"
        /\ response[c] = "Executed: step failed"
        /\ workflow_data[callWorkflowId[c]].steps[callStepId[c]] = "failed"

(***************************************************************************)
(* C8.  The stored progress of a workflow never decreases.                 *)
(***************************************************************************)
ProgressNonDecreasing ==
    [][ \A w \in WorkflowIds :
          workflow_data'[w].progress >= workflow_data[w].progress ]_vars

(***************************************************************************)
(* C9.  When two calls on different steps of one workflow have both        *)
(* returned with their step completed, the stored workflow records both    *)
(* steps as completed.                                                     *)
(***************************************************************************)
BothCompletionsStored ==
    \A c1, c2 \in Calls :
        ( /\ c1 # c2
          /\ pc[c1] = "done" /\ response[c1] = "Executed: step completed"
          /\ pc[c2] = "done" /\ response[c2] = "Executed: step completed"
          /\ callWorkflowId[c1] = callWorkflowId[c2]
          /\ callStepId[c1] # callStepId[c2] )
        => /\ workflow_data[callWorkflowId[c1]].steps[callStepId[c1]] = "completed"
           /\ workflow_data[callWorkflowId[c2]].steps[callStepId[c2]] = "completed"

(***************************************************************************)
(* C10.  Once a call has returned from completing a step, the status       *)
(* column is completed if every critical step is completed in the store,   *)
(* whatever the non-critical steps; and the status column is completed     *)
(* only if every critical step is completed.                               *)
(***************************************************************************)
criticalCompleted(wf) == \A s \in criticalSteps : wf.steps[s] = "completed"

CompletedWhenCriticalCompleted ==
    \A w \in WorkflowIds :
        /\ ( /\ criticalCompleted(workflow_data[w])
             /\ \A c \in Calls : ~ InFlight(c)
             /\ \E c \in Calls :
                  /\ pc[c] = "done"
                  /\ callWorkflowId[c] = w
                  /\ response[c] = "Executed: step completed" )
           => row_status[w] = "completed"
        /\ row_status[w] = "completed" => criticalCompleted(workflow_data[w])

(***************************************************************************)
(* getNextPendingStep (lines 614-616): the first step, in workflow order,  *)
(* whose status is pending, or "none".  getNextActions (lines 618-629):    *)
(* the array built from it, empty or with that one step.                   *)
(***************************************************************************)
getNextPendingStep(wf) ==
    IF \E i \in 1..NumSteps : wf.steps[stateWorkflowSteps[i]] = "pending"
      THEN stateWorkflowSteps[
             CHOOSE i \in 1..NumSteps :
               /\ wf.steps[stateWorkflowSteps[i]] = "pending"
               /\ \A j \in 1..(i - 1) : wf.steps[stateWorkflowSteps[j]] # "pending" ]
      ELSE "none"

getNextActions(wf) ==
    IF getNextPendingStep(wf) = "none" THEN {} ELSE { getNextPendingStep(wf) }

(***************************************************************************)
(* C11.  The next-actionable result is exactly the set of pending steps    *)
(* whose dependencies are all completed: for the workflow a call has just  *)
(* updated (the nextActions of its response) and for every stored          *)
(* workflow.                                                               *)
(***************************************************************************)
actionableSteps(wf) ==
    { s \in StepIds : wf.steps[s] = "pending" /\ checkStepDependencies(wf, s) }

NextActionsAreActionable ==
    /\ \A w \in WorkflowIds :
         getNextActions(workflow_data[w]) = actionableSteps(workflow_data[w])
    /\ \A c \in Calls :
         pc[c] = "update" => getNextActions(workflow[c]) = actionableSteps(workflow[c])

(***************************************************************************)
(* C12.  A failed step is retryable: a call on a step that is failed in    *)
(* the store, with its dependencies completed there, marks the step        *)
(* in_progress and starts the delegated work; when that work succeeds the  *)
(* step becomes completed in the call's workflow and the UPDATE of the     *)
(* call stores it as completed.                                            *)
(***************************************************************************)
FailedStepIsRetryable ==
    [][ \A c \in Calls :
          /\ ( /\ Begins(c)
               /\ response'[c] # "Error: store"
               /\ callWorkflowId'[c] \in WorkflowIds
               /\ callStepId'[c] \in StepIds
               /\ workflow_data[callWorkflowId'[c]].steps[callStepId'[c]] = "failed"
               /\ \A d \in getStepDependencies(callStepId'[c]) :
                    workflow_data[callWorkflowId'[c]].steps[d] = "completed" )
             => ( /\ pc'[c] = "executing"
                  /\ workflow'[c].steps[callStepId'[c]] = "in_progress" )
          /\ ( pc[c] = "executing" /\ pc'[c] = "update" /\ result'[c] = "success" )
             => workflow'[c].steps[callStepId[c]] = "completed"
          /\ ( /\ LeavesUpdate(c)
               /\ result[c] = "success"
               /\ response'[c] # "Error: store" )
             => workflow_data'[callWorkflowId[c]].steps[callStepId[c]] = "completed"
      ]_vars

(* The retry of a step that is failed in the store has succeeded. *)
FailedStepRetriedReached ==
    \E c \in Calls :
        /\ pc[c] = "update"
        /\ result[c] = "success"
        /\ workflow_data[callWorkflowId[c]].steps[callStepId[c]] = "failed"
        /\ workflow[c].steps[callStepId[c]] = "completed"

(***************************************************************************)
(* Every await of executeWorkflowStep settles: the delegated work returns, *)
(* the UPDATE and the memory call resolve or reject, completeWorkflow      *)
(* resolves or rejects.                                                    *)
(***************************************************************************)
FairSpec ==
    /\ Spec
    /\ \A c \in Calls :
         /\ WF_vars(ExecuteStep(c))
         /\ WF_vars(UpdateWorkflow(c) \/ StoreMemoryThrows(c) \/ UpdateThrows(c))
         /\ WF_vars(CompleteWorkflow(c) \/ CompleteWorkflowThrows(c))

(***************************************************************************)
(* C13.  Every call that has marked a step in_progress eventually resolves *)
(* it: the step becomes completed or failed in the store, also when the    *)
(* delegated work, the UPDATE or the memory call throws.                   *)
(***************************************************************************)
InProgressEventuallyResolved ==
    \A c \in Calls :
        pc[c] = "executing"
        ~> ( /\ pc[c] = "done"
             /\ callWorkflowId[c] \in WorkflowIds
             /\ callStepId[c] \in StepIds
             /\ workflow_data[callWorkflowId[c]].steps[callStepId[c]] \in
                  { "completed", "failed" } )

(***************************************************************************)
(* Model of the compliance engine of                                       *)
(* src/core/compliance_revenue_engine.js (ComplianceRevenueEngine).        *)
(*                                                                         *)
(* A date is a civil time in the local zone of the process, to the hour:   *)
(* [year, month (1..12), day, hour].  All dates of one process are in the  *)
(* same zone, so their order is the order of the instants they stand for.  *)
(***************************************************************************)
(* The instants the clock takes, in order; calls made with no step of the *)
(* clock between them read the same instant.                              *)
ClockInstants ==
    << [ year |-> 2024, month |-> 3, day |-> 20, hour |-> 9 ],
       [ year |-> 2024, month |-> 4, day |-> 10, hour |-> 9 ],
       [ year |-> 2025, month |-> 1, day |-> 25, hour |-> 9 ] >>

(* new Date() *)
today == ClockInstants[now]

(* Date.now(): later instants give larger values. *)
DateNow == now

isLeapYear(year) ==
    (year % 4 = 0 /\ year % 100 # 0) \/ year % 400 = 0

daysInMonth(year, month) ==
    IF month = 2 THEN (IF isLeapYear(year) THEN 29 ELSE 28)
    ELSE IF month \in { 4, 6, 9, 11 } THEN 30
    ELSE 31

RECURSIVE daysBeforeMonth(_, _)
daysBeforeMonth(year, month) ==
    IF month = 1 THEN 0
    ELSE daysBeforeMonth(year, month - 1) + daysInMonth(year, month - 1)

(* The number of the day in the proleptic Gregorian calendar. *)
dayNumber(date) ==
    LET y == date.year - 1
    IN  365 * y + (y \div 4) - (y \div 100) + (y \div 400)
          + daysBeforeMonth(date.year, date.month) + date.day

(* The time of a date in hours: Date.getTime() up to a constant and a unit. *)
getTime(date) == dayNumber(date) * 24 + date.hour

(* new Date(year, monthIndex, day): local midnight; monthIndex is 0-based *)
(* and an index of 12 or more runs into the next year.                    *)
newDate(year, monthIndex, day) ==
    [ year  |-> year + (monthIndex \div 12),
      month |-> (monthIndex % 12) + 1,
      day   |-> day,
      hour  |-> 0 ]

previousDay(date) ==
    IF date.day > 1 THEN [ date EXCEPT !.day = @ - 1 ]
    ELSE IF date.month > 1
      THEN [ date EXCEPT !.month = @ - 1,
                         !.day = daysInMonth(date.year, date.month - 1) ]
    ELSE [ date EXCEPT !.year = @ - 1, !.month = 12, !.day = 31 ]

(***************************************************************************)
(* new Date(formationDate) for a date-only string "YYYY-MM-DD": midnight   *)
(* UTC of that day, which in a zone behind UTC is an hour of the day       *)
(* before.  formationDate is given as [year, month, day].                  *)
(***************************************************************************)
parseDate(formationDate, tz) ==
    IF tz > 0
      THEN [ year  |-> previousDay(formationDate).year,
             month |-> previousDay(formationDate).month,
             day   |-> previousDay(formationDate).day,
             hour  |-> 24 - tz ]
      ELSE [ year |-> formationDate.year, month |-> formationDate.month,
             day |-> formationDate.day, hour |-> 0 - tz ]

(* Date.setFullYear(year): a 29 February of a common year is 1 March. *)
setFullYear(date, year) ==
    IF date.month = 2 /\ date.day = 29 /\ ~ isLeapYear(year)
      THEN [ date EXCEPT !.year = year, !.month = 3, !.day = 1 ]
      ELSE [ date EXCEPT !.year = year ]

(* complianceRequirements, lines 29-116: what createComplianceCalendar reads. *)
complianceRequirements ==
    [ FL |-> [ annualReport    |-> TRUE,
               businessLicense |-> TRUE,
               taxObligations  |->
                 << [ type |-> "Sales Tax", frequency |-> "Monthly" ],
                    [ type |-> "Reemployment Tax", frequency |-> "Quarterly" ] >> ],
      WY |-> [ annualReport    |-> TRUE,
               businessLicense |-> FALSE,
               taxObligations  |->
                 << [ type |-> "Sales Tax", frequency |-> "Monthly/Quarterly" ] >> ],
      IL |-> [ annualReport    |-> TRUE,
               businessLicense |-> TRUE,
               taxObligations  |->
                 << [ type |-> "Income Tax", frequency |-> "Annual" ],
                    [ type |-> "Sales Tax", frequency |-> "Monthly" ] >> ] ]

SupportedStates == DOMAIN complianceRequirements

(* Lines 118-138: the prices of the ongoing services. *)
revenueServices ==
    [ annualReportFiling |-> 149, registeredAgent |-> 199,
      taxPreparation |-> 299 ]

(* An event of a calendar: the fields the engine reads again.  The      *)
(* revenue opportunity is kept in twelfths of a dollar (lines 567, 584). *)
complianceEvent(id, type, dueDate, critical, automationTrigger, taxType, period, revenueOpportunity) ==
    [ id                 |-> id,
      type               |-> type,
      dueDate            |-> dueDate,
      critical           |-> critical,
      automatable        |-> TRUE,
      automationTrigger  |-> automationTrigger,
      revenueOpportunity |-> revenueOpportunity,
      details            |-> [ taxType |-> taxType, period |-> period ] ]

createAnnualReportEvent(state, year, formationDate, tz) ==
    LET formationMonth == parseDate(formationDate, tz).month - 1
        dueDate == IF state = "FL" THEN newDate(year, 4, 1)
                                   ELSE newDate(year, formationMonth, 15)
    IN  complianceEvent("AR-" \o state \o "-" \o ToString(year),
                        "annual_report", dueDate, TRUE, 45, "none", "none",
                        12 * revenueServices.annualReportFiling)

(* Variant: the id of a monthly event leaves out the month. *)
monthlyTaxEventIdOfYear(taxObligation, year, month) ==
    "TAX-" \o taxObligation.type \o "-" \o ToString(year)

(* Line 558: the id of the event of one month. *)
monthlyTaxEventId(taxObligation, year, month) ==
    "TAX-" \o taxObligation.type \o "-" \o ToString(year) \o "-" \o ToString(month)

createTaxEvents(taxObligation, year) ==
    CASE taxObligation.frequency = "Monthly" ->
           [ month \in 1..12 |->
               complianceEvent(
                 monthlyTaxEventId(taxObligation, year, month),
                 "tax_filing", newDate(year, month, 20), TRUE, 30,
                 taxObligation.type, "monthly",
                 (12 * revenueServices.taxPreparation) \div 12) ]
      [] taxObligation.frequency = "Quarterly" ->
           [ quarter \in 1..4 |->
               complianceEvent(
                 "TAX-" \o taxObligation.type \o "-" \o ToString(year)
                        \o "-Q" \o ToString(quarter),
                 "tax_filing", newDate(year, quarter * 3, 15), TRUE, 45,
                 taxObligation.type, "quarterly",
                 (12 * revenueServices.taxPreparation) \div 4) ]
      [] taxObligation.frequency = "Annual" ->
           << complianceEvent(
                "TAX-" \o taxObligation.type \o "-" \o ToString(year),
                "tax_filing", newDate(year + 1, 2, 15), TRUE, 60,
                taxObligation.type, "annual",
                12 * revenueServices.taxPreparation) >>
      [] OTHER -> << >>

createBusinessLicenseEvent(state, year) ==
    complianceEvent("LIC-" \o state \o "-" \o ToString(year),
                    "license_renewal", newDate(year, 11, 31), FALSE, 60,
                    "none", "none", 12 * 149)

(* Variant: the renewal falls on the day of the generation. *)
createRegisteredAgentEventToday(state, year, formationDate, tz) ==
    complianceEvent("RA-" \o state \o "-" \o ToString(year),
                    "registered_agent",
                    setFullYear(today, year), TRUE, 30,
                    "none", "none", 12 * revenueServices.registeredAgent)

createRegisteredAgentEvent(state, year, formationDate, tz) ==
    complianceEvent("RA-" \o state \o "-" \o ToString(year),
                    "registered_agent",
                    setFullYear(parseDate(formationDate, tz), year), TRUE, 30,
                    "none", "none", 12 * revenueServices.registeredAgent)

createFederalTaxEvents(year) ==
    << complianceEvent("FED-INCOME-" \o ToString(year), "tax_filing",
                       newDate(year + 1, 2, 15), TRUE, 60,
                       "federal_income", "annual",
                       12 * revenueServices.taxPreparation) >>
    \o [ quarter \in 1..4 |->
           complianceEvent("FED-EST-" \o ToString(year) \o "-Q" \o ToString(quarter),
                           "tax_filing", newDate(year, (quarter - 1) * 3 + 3, 15),
                           FALSE, 30, "estimated_tax", "quarterly", 12 * 75) ]

RECURSIVE taxEventsOf(_, _)
taxEventsOf(taxObligations, year) ==
    IF taxObligations = << >> THEN << >>
    ELSE createTaxEvents(Head(taxObligations), year)
           \o taxEventsOf(Tail(taxObligations), year)

(* The body of the loop of lines 160-186 for one year. *)
eventsOfYear(state, year, formationDate, tz) ==
    LET stateRequirements == complianceRequirements[state]
    IN  (IF stateRequirements.annualReport
           THEN << createAnnualReportEvent(state, year, formationDate, tz) >>
           ELSE << >>)
        \o taxEventsOf(stateRequirements.taxObligations, year)
        \o (IF stateRequirements.businessLicense
              THEN << createBusinessLicenseEvent(state, year) >>
              ELSE << >>)
        \o << createRegisteredAgentEvent(state, year, formationDate, tz) >>
        \o createFederalTaxEvents(year)

(* Variant: the events stay in the order of their generation. *)
sortByDueDateNever(events) == events

(* Array.prototype.sort on the due dates (line 189): a stable sort. *)
sortByDueDate(events) ==
    SortSeq(events, LAMBDA a, b : getTime(a.dueDate) < getTime(b.dueDate))

(* Lines 158-189: the events of the years currentYear .. currentYear + 2. *)
complianceEvents(state, currentYear, formationDate, tz) ==
    sortByDueDate(
        eventsOfYear(state, currentYear, formationDate, tz)
        \o eventsOfYear(state, currentYear + 1, formationDate, tz)
        \o eventsOfYear(state, currentYear + 2, formationDate, tz))

calendarIdOf(state, dateNow) == "COMP-" \o state \o "-" \o ToString(dateNow)

(* Line 204: the id of the first event, in the order of the array, that *)
(* is due after the given instant; Array.prototype.find gives undefined *)
(* when there is none.                                                  *)
nextDueEvent(events, todayDate) ==
    LET later == SelectSeq(events,
                           LAMBDA event : getTime(event.dueDate) > getTime(todayDate))
    IN  IF later = << >> THEN "undefined" ELSE Head(later).id

(* Lines 153-205: the calendar row createComplianceCalendar inserts. *)
complianceCalendar(businessName, state, formationDate) ==
    LET events == complianceEvents(state, today.year, formationDate, timezone)
    IN  [ id            |-> calendarIdOf(state, DateNow),
          businessName  |-> businessName,
          state         |-> state,
          formationDate |-> formationDate,
          createdDate   |-> today,
          events        |-> events,
          nextDueEvent  |-> nextDueEvent(events, today) ]

(* What callers pass to createComplianceCalendar. *)
CompanyNames == { "Acme LLC" }
CallStates == { "FL", "WY", "IL", "TX" }
FormationDates ==
    { [ year |-> 2024, month |-> 3, day |-> 10 ],
      [ year |-> 2024, month |-> 3, day |-> 1 ] }

(* The calendar ids present in the table; calendar_id is UNIQUE. *)
CalendarIds ==
    { compliance_calendars[k].id : k \in 1..Len(compliance_calendars) }

errorResponse(op, error) == [ op |-> op, success |-> FALSE, error |-> error ]

(* A caller issues a request that is served in one step and gets resp. *)
Serve(c, resp) ==
    /\ pc[c] = "idle"
    /\ pc' = [ pc EXCEPT ![c] = "done" ]
    /\ apiResponse' = [ apiResponse EXCEPT ![c] = resp ]
    /\ UNCHANGED << callWorkflowId, callStepId, workflow, result, response >>

(***************************************************************************)
(* createComplianceCalendar, lines 144-258: an unsupported state throws    *)
(* before anything is built; otherwise the calendar is inserted as a new   *)
(* row, and the call returns success, or the error of the catch when       *)
(* memory.storeMemory or mintEvidence rejects after the INSERT.  An id     *)
(* that is already in the table makes the INSERT reject.                   *)
(***************************************************************************)
CreateComplianceCalendar(c, businessName, state, formationDate) ==
    /\ pc[c] = "idle"
    /\ IF state \notin SupportedStates
         THEN /\ Serve(c, errorResponse("createComplianceCalendar",
                                        "Compliance requirements not available"))
              /\ UNCHANGED compliance_calendars
       ELSE IF calendarIdOf(state, DateNow) \in CalendarIds
         THEN /\ Serve(c, errorResponse("createComplianceCalendar", "store"))
              /\ UNCHANGED compliance_calendars
         ELSE /\ compliance_calendars' =
                   Append(compliance_calendars,
                          complianceCalendar(businessName, state, formationDate))
              /\ \E resp \in
                   { [ op |-> "createComplianceCalendar", success |-> TRUE,
                       calendarId |-> calendarIdOf(state, DateNow) ],
                     errorResponse("createComplianceCalendar", "memory") } :
                   Serve(c, resp)
    /\ UNCHANGED << now, timezone >>
    /\ UNCHANGED << workflow_data, row_status, sideEffects >>
    /\ UNCHANGED << gameVars, formationVars >>

(* The INSERT rejects: no row, and the catch returns the error. *)
CreateCalendarInsertThrows(c, businessName, state, formationDate) ==
    /\ state \in SupportedStates
    /\ Serve(c, errorResponse("createComplianceCalendar", "store"))
    /\ UNCHANGED << now, timezone, compliance_calendars >>
    /\ UNCHANGED << workflow_data, row_status, sideEffects >>
    /\ UNCHANGED << gameVars, formationVars >>

(* Line 283: Math.ceil((eventDate - today) / one day). *)
daysUntilDue(event, todayDate) ==
    0 - ((getTime(todayDate) - getTime(event.dueDate)) \div 24)

eventIds(events) == [ k \in 1..Len(events) |-> events[k].id ]

(* Variant: upcoming events are looked at before overdue ones. *)
reportStatusUpcomingFirst(overdueEvents, upcomingEvents) ==
    IF Len(upcomingEvents) > 0 THEN "ACTION_REQUIRED"
    ELSE IF Len(overdueEvents) > 0 THEN "NON_COMPLIANT"
    ELSE "COMPLIANT"

(* Line 305. *)
reportStatus(overdueEvents, upcomingEvents) ==
    IF Len(overdueEvents) > 0 THEN "NON_COMPLIANT"
    ELSE IF Len(upcomingEvents) > 0 THEN "ACTION_REQUIRED"
    ELSE "COMPLIANT"

(* Variant: the opportunities are ranked by revenue alone. *)
identifyImmediateRevenueOpportunitiesByRevenue(upcomingEvents, overdueEvents) ==
    SortSeq(SelectSeq(upcomingEvents \o overdueEvents,
                      LAMBDA event : event.revenueOpportunity > 0),
            LAMBDA a, b : b.revenueOpportunity < a.revenueOpportunity)

(* Lines 726-739.  upcomingEvents and overdueEvents are the elements      *)
(* lines 286 and 289 push: an event with its daysOverdue or daysUntilDue  *)
(* (0 stands for the absent field).                                       *)
identifyImmediateRevenueOpportunities(upcomingEvents, overdueEvents) ==
    LET urgencyOf(event) ==
            IF event.daysOverdue # 0 THEN "critical"
            ELSE IF event.daysUntilDue <= 7 THEN "high" ELSE "medium"
        immediate ==
            [ k \in 1..Len(SelectSeq(upcomingEvents \o overdueEvents,
                              LAMBDA event : event.revenueOpportunity > 0)) |->
                LET event == SelectSeq(upcomingEvents \o overdueEvents,
                               LAMBDA e : e.revenueOpportunity > 0)[k]
                IN  [ id |-> event.id,
                      revenueOpportunity |-> event.revenueOpportunity,
                      urgency |-> urgencyOf(event) ] ]
        before(a, b) ==
            IF a.urgency = "critical" /\ b.urgency # "critical" THEN TRUE
            ELSE IF b.urgency = "critical" /\ a.urgency # "critical" THEN FALSE
            ELSE b.revenueOpportunity < a.revenueOpportunity
    IN  SortSeq(immediate, before)

(* Lines 276-316: the report monitorCompliance builds from a calendar. *)
complianceReport(calendar, todayDate) ==
    LET isOverdue(event) == daysUntilDue(event, todayDate) < 0
        isUpcoming(event) == ~ isOverdue(event) /\ daysUntilDue(event, todayDate) <= 30
        isActionable(event) ==
            event.automatable /\ daysUntilDue(event, todayDate) <= event.automationTrigger
        overdueEvents == SelectSeq(calendar.events, isOverdue)
        upcomingEvents == SelectSeq(calendar.events, isUpcoming)
        actionableEvents == SelectSeq(calendar.events, isActionable)
        pushedOverdue ==
            [ k \in 1..Len(overdueEvents) |->
                [ id |-> overdueEvents[k].id,
                  revenueOpportunity |-> overdueEvents[k].revenueOpportunity,
                  daysOverdue |-> 0 - daysUntilDue(overdueEvents[k], todayDate),
                  daysUntilDue |-> 0 ] ]
        pushedUpcoming ==
            [ k \in 1..Len(upcomingEvents) |->
                [ id |-> upcomingEvents[k].id,
                  revenueOpportunity |-> upcomingEvents[k].revenueOpportunity,
                  daysOverdue |-> 0,
                  daysUntilDue |-> daysUntilDue(upcomingEvents[k], todayDate) ] ]
    IN  [ calendarId |-> calendar.id,
          reportDate |-> todayDate,
          status     |-> reportStatus(overdueEvents, upcomingEvents),
          overdue    |-> eventIds(overdueEvents),
          upcoming   |-> eventIds(upcomingEvents),
          actionable |-> eventIds(actionableEvents),
          revenueOpportunities |->
              identifyImmediateRevenueOpportunities(pushedUpcoming, pushedOverdue) ]

(* The calendar ids a caller may pass. *)
CallCalendarIds == CalendarIds \cup { "COMP-unknown" }

(* Lines 294-296: the events monitorCompliance hands to the executor. *)
actionableEvents(calendar, todayDate) ==
    SelectSeq(calendar.events,
              LAMBDA event : /\ event.automatable
                             /\ daysUntilDue(event, todayDate)
                                  <= event.automationTrigger)

(* Variant: the annual report is submitted to the state. *)
automateAnnualReportFiled(event) ==
    [ success |-> TRUE, action |-> "annual_report_filed",
      revenue |-> revenueServices.annualReportFiling ]

(* Lines 417-518: what each branch returns when nothing rejects. *)
automateAnnualReport(event) ==
    [ success |-> TRUE, action |-> "annual_report_prepared",
      revenue |-> revenueServices.annualReportFiling ]

automateRegisteredAgentRenewal(event) ==
    [ success |-> TRUE, action |-> "registered_agent_renewal_prepared",
      revenue |-> revenueServices.registeredAgent ]

automateTaxFiling(event) ==
    [ success |-> TRUE, action |-> "tax_filing_prepared",
      revenue |-> revenueServices.taxPreparation ]

automateLicenseRenewal(event) ==
    [ success |-> TRUE, action |-> "license_renewal_prepared",
      revenue |-> 149 ]

(* Variant: a rejected execution still charges the service fee. *)
executeAutomatedComplianceCharges(event, rejects, executionDate) ==
    [ eventId |-> event.id, eventType |-> event.type, success |-> ~ rejects,
      action |-> "none", revenue |-> revenueServices.annualReportFiling,
      executionDate |-> executionDate ]

(***************************************************************************)
(* executeAutomatedCompliance, lines 361-412.  rejects: the document       *)
(* generation inside the branch or memory.storeMemory rejects; both        *)
(* catches give success false and revenue 0 with the id of the event.      *)
(***************************************************************************)
executeAutomatedCompliance(event, rejects, executionDate) ==
    LET outcome ==
            IF rejects
              THEN [ success |-> FALSE, action |-> "none", revenue |-> 0 ]
            ELSE CASE event.type = "annual_report" -> automateAnnualReport(event)
                   [] event.type = "tax_filing" -> automateTaxFiling(event)
                   [] event.type = "license_renewal" -> automateLicenseRenewal(event)
                   [] event.type = "registered_agent" ->
                        automateRegisteredAgentRenewal(event)
                   [] OTHER -> [ success |-> FALSE, action |-> "unsupported",
                                 revenue |-> 0 ]
    IN  [ eventId       |-> event.id,
          eventType     |-> event.type,
          success       |-> outcome.success,
          action        |-> outcome.action,
          revenue       |-> outcome.revenue,
          executionDate |-> executionDate ]

(* Lines 708-710. *)
RECURSIVE calculateGeneratedRevenue(_)
calculateGeneratedRevenue(automationResults) ==
    IF automationResults = << >> THEN 0
    ELSE Head(automationResults).revenue
           + calculateGeneratedRevenue(Tail(automationResults))

(* Which of n executions reject: none, the first one, or every one. *)
RejectChoices(n) == { {}, { k \in 1..n : k = 1 }, 1..n }

(***************************************************************************)
(* monitorCompliance, lines 264-332: the SELECT by calendar id; no row     *)
(* throws 'Compliance calendar not found'; otherwise the events of the     *)
(* first row are classified against today and the report is built.  The    *)
(* call then holds its report and the events to execute in apiResponse     *)
(* (op "monitoring") until its executions are done.  Rows are never        *)
(* updated, so the SELECT and the classification are one step.             *)
(***************************************************************************)
MonitorCompliance(c, calendarId) ==
    LET calendarResult ==
            SelectSeq(compliance_calendars, LAMBDA row : row.id = calendarId)
    IN  /\ pc[c] = "idle"
        /\ IF Len(calendarResult) = 0
             THEN Serve(c, errorResponse("monitorCompliance",
                                         "Compliance calendar not found"))
             ELSE /\ pc' = [ pc EXCEPT ![c] = "automating" ]
                  /\ apiResponse' =
                       [ apiResponse EXCEPT ![c] =
                           [ op |-> "monitoring",
                             complianceReport |->
                               complianceReport(calendarResult[1], today),
                             actionableEvents |->
                               actionableEvents(calendarResult[1], today) ] ]
                  /\ UNCHANGED << callWorkflowId, callStepId, workflow,
                                  result, response >>
        /\ UNCHANGED << now, timezone, compliance_calendars >>
        /\ UNCHANGED << workflow_data, row_status, sideEffects >>
        /\ UNCHANGED << gameVars, formationVars >>

(* The SELECT rejects: the catch returns the error. *)
MonitorComplianceThrows(c, calendarId) ==
    /\ Serve(c, errorResponse("monitorCompliance", "store"))
    /\ UNCHANGED << now, timezone, compliance_calendars >>
    /\ UNCHANGED << workflow_data, row_status, sideEffects >>
    /\ UNCHANGED << gameVars, formationVars >>

(***************************************************************************)
(* monitorCompliance, lines 334-346: every actionable event is executed    *)
(* and the call returns the report with the results.  Nothing is written   *)
(* to the table.                                                           *)
(***************************************************************************)
ExecuteAutomatedActions(c) ==
    /\ pc[c] = "automating"
    /\ \E rejecting \in RejectChoices(Len(apiResponse[c].actionableEvents)) :
         LET automationResults ==
                 [ k \in 1..Len(apiResponse[c].actionableEvents) |->
                     executeAutomatedCompliance(
                         apiResponse[c].actionableEvents[k],
                         k \in rejecting, today) ]
         IN  apiResponse' =
               [ apiResponse EXCEPT ![c] =
                   [ op |-> "monitorCompliance", success |-> TRUE,
                     complianceReport |-> apiResponse[c].complianceReport,
                     automationResults |-> automationResults,
                     revenueGenerated |->
                       calculateGeneratedRevenue(automationResults) ] ]
    /\ pc' = [ pc EXCEPT ![c] = "done" ]
    /\ UNCHANGED << callWorkflowId, callStepId, workflow, result, response >>
    /\ UNCHANGED << now, timezone, compliance_calendars >>
    /\ UNCHANGED << workflow_data, row_status, sideEffects >>
    /\ UNCHANGED << gameVars, formationVars >>

(* Lines 314-332: generateComplianceRecommendations or memory.storeMemory *)
(* rejects before any execution: the catch returns the error.             *)
MonitorMemoryThrows(c) ==
    /\ pc[c] = "automating"
    /\ pc' = [ pc EXCEPT ![c] = "done" ]
    /\ apiResponse' =
         [ apiResponse EXCEPT ![c] = errorResponse("monitorCompliance", "memory") ]
    /\ UNCHANGED << callWorkflowId, callStepId, workflow, result, response >>
    /\ UNCHANGED << now, timezone, compliance_calendars >>
    /\ UNCHANGED << workflow_data, row_status, sideEffects >>
    /\ UNCHANGED << gameVars, formationVars >>

(* Time passes: the clock takes its next instant. *)
TimePasses ==
    /\ now < Len(ClockInstants)
    /\ now' = now + 1
    /\ UNCHANGED << timezone, compliance_calendars, apiResponse >>
    /\ UNCHANGED workflowVars
    /\ UNCHANGED << gameVars, formationVars >>

ComplianceNext ==
    \/ \E c \in Calls :
         \/ \E businessName \in CompanyNames, state \in CallStates,
               formationDate \in FormationDates :
              \/ CreateComplianceCalendar(c, businessName, state, formationDate)
              \/ CreateCalendarInsertThrows(c, businessName, state, formationDate)
         \/ \E calendarId \in CallCalendarIds :
              \/ MonitorCompliance(c, calendarId)
              \/ MonitorComplianceThrows(c, calendarId)
         \/ ExecuteAutomatedActions(c)
         \/ MonitorMemoryThrows(c)
    \/ TimePasses

(* The step engine at rest: the seed workflow with the given stored step *)
(* statuses, no call issued.                                             *)
StepEngineIdle(steps) ==
    /\ workflow_data =
         [ w \in SeedWorkflowIds |->
             [ newWorkflow(TRUE) EXCEPT
                 !.steps = steps, !.progress = computeProgress(steps) ] ]
    /\ row_status = [ w \in SeedWorkflowIds |-> "created" ]
    /\ sideEffects =
         [ w \in SeedWorkflowIds |->
             [ s \in StepIds |-> IF steps[s] = "completed" THEN 1 ELSE 0 ] ]
    /\ pc = [ c \in Calls |-> "idle" ]
    /\ callWorkflowId = [ c \in Calls |-> "none" ]
    /\ callStepId = [ c \in Calls |-> "none" ]
    /\ workflow = [ c \in Calls |-> NoWorkflow ]
    /\ result = [ c \in Calls |-> "none" ]
    /\ response = [ c \in Calls |-> "none" ]

ComplianceStart ==
    /\ StepEngineIdle([ s \in StepIds |-> "pending" ])
    /\ ComplianceInit
    /\ GameIdle
    /\ FormationIdle

ComplianceSpec == ComplianceStart /\ [][ComplianceNext]_vars

(***************************************************************************)
(* The monitor over one stored calendar: the table holds the calendar one  *)
(* createComplianceCalendar call of a supported state has inserted at the  *)
(* instant the clock shows, and callers monitor it from then on.           *)
(***************************************************************************)
MonitorStart ==
    /\ StepEngineIdle([ s \in StepIds |-> "pending" ])
    /\ now \in 1..Len(ClockInstants)
    /\ timezone \in TimeZones
    /\ \E businessName \in CompanyNames, state \in SupportedStates,
          formationDate \in FormationDates :
         compliance_calendars =
             << complianceCalendar(businessName, state, formationDate) >>
    /\ apiResponse = [ c \in Calls |-> NoResponse ]
    /\ GameIdle
    /\ FormationIdle

MonitorNext ==
    \/ \E c \in Calls :
         \/ \E calendarId \in CallCalendarIds :
              \/ MonitorCompliance(c, calendarId)
              \/ MonitorComplianceThrows(c, calendarId)
         \/ ExecuteAutomatedActions(c)
         \/ MonitorMemoryThrows(c)
    \/ TimePasses

MonitorSpec == MonitorStart /\ [][MonitorNext]_vars

(***************************************************************************)
(* Vocabulary of the calendar properties.                                  *)
(***************************************************************************)
Rows == 1..Len(compliance_calendars)

sameRequest(a, b) ==
    /\ a.businessName = b.businessName
    /\ a.state = b.state
    /\ a.formationDate = b.formationDate

eventSet(calendar) == { calendar.events[k] : k \in 1..Len(calendar.events) }

EventIdsDistinct ==
    \A i \in Rows :
        LET events == compliance_calendars[i].events
        IN  \A k, l \in 1..Len(events) : events[k].id = events[l].id => k = l

(* Calendars of two states with monthly, quarterly and annual tax events. *)
CalendarsOfTwoStatesReached ==
    \E i, j \in Rows :
        /\ compliance_calendars[i].state = "FL"
        /\ compliance_calendars[j].state = "IL"
        /\ \E k \in 1..Len(compliance_calendars[i].events) :
             compliance_calendars[i].events[k].details.period = "quarterly"
        /\ \E k \in 1..Len(compliance_calendars[j].events) :
             compliance_calendars[j].events[k].details.period = "monthly"

(***************************************************************************)
(* C18.  The store holds at most one calendar per entity, whatever the     *)
(* number of createComplianceCalendar calls for it.                        *)
(***************************************************************************)
OneCalendarPerEntity ==
    \A i, j \in Rows :
        sameRequest(compliance_calendars[i], compliance_calendars[j]) => i = j

(***************************************************************************)
(* C19.  In a calendar of a state with the anniversary rule (WY, IL) the   *)
(* annual-report events are exactly three, one for each year of the        *)
(* horizon that starts at the year of the generation, each due on day 15   *)
(* of the month of the formation date.                                     *)
(***************************************************************************)
annualReportDueDates(calendar) ==
    { e.dueDate : e \in { x \in eventSet(calendar) : x.type = "annual_report" } }

AnnualReportOnAnniversaryMonth ==
    \A i \in Rows :
        LET calendar == compliance_calendars[i]
        IN  calendar.state \in { "WY", "IL" } =>
              /\ Cardinality({ k \in 1..Len(calendar.events) :
                     calendar.events[k].type = "annual_report" }) = 3
              /\ annualReportDueDates(calendar) =
                   { [ year  |-> y, month |-> calendar.formationDate.month,
                       day   |-> 15, hour |-> 0 ] :
                     y \in calendar.createdDate.year .. (calendar.createdDate.year + 2) }

(***************************************************************************)
(* C20.  For every year of the horizon and every tax obligation of the     *)
(* state of a stored calendar, the calendar holds the events of the        *)
(* obligation for that year: 12 for a monthly one, 4 for a quarterly one,  *)
(* 1 for an annual one, and never none.                                    *)
(***************************************************************************)
taxEventsIn(calendar, taxType, years) ==
    { k \in 1..Len(calendar.events) :
        /\ calendar.events[k].type = "tax_filing"
        /\ calendar.events[k].details.taxType = taxType
        /\ \E y \in years : \E suffix \in { "" } \cup { "-" \o ToString(m) : m \in 1..12 }
                                       \cup { "-Q" \o ToString(q) : q \in 1..4 } :
             calendar.events[k].id = "TAX-" \o taxType \o "-" \o ToString(y) \o suffix }

EveryObligationHasEvents ==
    \A i \in Rows :
        LET calendar == compliance_calendars[i]
            taxObligations == complianceRequirements[calendar.state].taxObligations
        IN  \A o \in 1..Len(taxObligations) :
              \A y \in calendar.createdDate.year .. (calendar.createdDate.year + 2) :
                LET n == Cardinality(taxEventsIn(calendar, taxObligations[o].type, { y }))
                IN  /\ n > 0
                    /\ taxObligations[o].frequency = "Monthly" => n = 12
                    /\ taxObligations[o].frequency = "Quarterly" => n = 4
                    /\ taxObligations[o].frequency = "Annual" => n = 1

(***************************************************************************)
(* createFormationWorkflow, lines 106-198.  An unsupported state throws    *)
(* before anything is stored; otherwise the workflow is inserted with      *)
(* every step pending and status 'created', and the call returns success,  *)
(* or the error of the catch when memory.storeMemory or mintEvidence       *)
(* rejects after the INSERT.  workflow_id is UNIQUE: an id that is already *)
(* in the table makes the INSERT reject.                                   *)
(***************************************************************************)
(* Variant: every state has a base workflow. *)
WorkflowStatesAny == { "FL", "WY", "IL", "TX" }

(* The keys of stateWorkflows, lines 29-99. *)
WorkflowStates == { "FL", "WY", "IL" }

BusinessNames == { "Acme LLC", "Acme" }

(* executeNameCheck: the name carries the LLC designator. *)
nameHasLLC(businessName) == businessName = "Acme LLC"

workflowIdOf(state, dateNow) == "WF-" \o state \o "-" \o ToString(dateNow)

CreateFormationWorkflow(c, businessName, state) ==
    LET workflowId == workflowIdOf(state, DateNow)
    IN  /\ pc[c] = "idle"
        /\ IF state \notin WorkflowStates
             THEN /\ Serve(c, errorResponse("createFormationWorkflow",
                                            "Unsupported state"))
                  /\ UNCHANGED << workflow_data, row_status, sideEffects >>
           ELSE IF workflowId \in WorkflowIds
             THEN /\ Serve(c, errorResponse("createFormationWorkflow", "store"))
                  /\ UNCHANGED << workflow_data, row_status, sideEffects >>
             ELSE /\ workflow_data' =
                       workflow_data @@
                         (workflowId :> newWorkflow(nameHasLLC(businessName)))
                  /\ row_status' = row_status @@ (workflowId :> "created")
                  /\ sideEffects' =
                       sideEffects @@ (workflowId :> [ s \in StepIds |-> 0 ])
                  /\ \E resp \in
                       { [ op |-> "createFormationWorkflow", success |-> TRUE,
                           workflowId |-> workflowId ],
                         errorResponse("createFormationWorkflow", "memory") } :
                       Serve(c, resp)
        /\ UNCHANGED << now, timezone, compliance_calendars >>
        /\ UNCHANGED << gameVars, formationVars >>

(* The INSERT rejects: no row, and the catch returns the error. *)
CreateWorkflowInsertThrows(c, businessName, state) ==
    /\ state \in WorkflowStates
    /\ Serve(c, errorResponse("createFormationWorkflow", "store"))
    /\ UNCHANGED << workflow_data, row_status, sideEffects >>
    /\ UNCHANGED << now, timezone, compliance_calendars >>
    /\ UNCHANGED << gameVars, formationVars >>

(***************************************************************************)
(* Both engines behind one server: every caller issues one request, of any *)
(* operation, and the requests interleave at their awaits.                 *)
(***************************************************************************)
PlatformNext ==
    \/ Next
    \/ ComplianceNext
    \/ \E c \in Calls : \E businessName \in BusinessNames,
                             state \in CallStates :
         \/ CreateFormationWorkflow(c, businessName, state)
         \/ CreateWorkflowInsertThrows(c, businessName, state)

(* The seed workflow has every step completed but the last one. *)
lastStepPending ==
    [ s \in StepIds |-> IF s = "compliance_setup" THEN "pending" ELSE "completed" ]

PlatformStart ==
    /\ StepEngineIdle(lastStepPending)
    /\ ComplianceInit
    /\ GameIdle
    /\ FormationIdle

PlatformSpec == PlatformStart /\ [][PlatformNext]_vars

(***************************************************************************)
(* C14.  executeWorkflowStep with an unknown workflow id or an unknown     *)
(* step id, createFormationWorkflow with an unsupported state,             *)
(* createComplianceCalendar with an unsupported state and                  *)
(* monitorCompliance with an unknown calendar id each return an error      *)
(* (success false) and leave both tables as they were.                     *)
(***************************************************************************)
TablesUnchanged ==
    /\ workflow_data' = workflow_data
    /\ row_status' = row_status
    /\ compliance_calendars' = compliance_calendars

UnsupportedStates == { "TX" }

ErrorsLeaveStoreUnchanged ==
    [][ \A c \in Calls :
          /\ ( /\ Begins(c)
               /\ callWorkflowId'[c] # "none"
               /\ \/ callWorkflowId'[c] \notin WorkflowIds
                  \/ callStepId'[c] \notin StepIds )
             => ( /\ pc'[c] = "done"
                  /\ response'[c] \in { "Error: Workflow not found",
                                        "Error: Step not found in workflow",
                                        "Error: store" }
                  /\ TablesUnchanged )
          /\ \A state \in UnsupportedStates :
               /\ \A businessName \in BusinessNames :
                    CreateFormationWorkflow(c, businessName, state)
                    => ( apiResponse'[c].success = FALSE /\ TablesUnchanged )
               /\ \A businessName \in CompanyNames, formationDate \in FormationDates :
                    CreateComplianceCalendar(c, businessName, state, formationDate)
                    => ( apiResponse'[c].success = FALSE /\ TablesUnchanged )
          /\ \A calendarId \in CallCalendarIds \ CalendarIds :
               MonitorCompliance(c, calendarId)
               => ( apiResponse'[c].success = FALSE /\ TablesUnchanged )
      ]_vars

(* An unknown step id and an unsupported state of createFormationWorkflow *)
(* have both been refused.                                                *)
ErrorsReturnedReached ==
    \E c1, c2 \in Calls :
        /\ response[c1] = "Error: Step not found in workflow"
        /\ apiResponse[c2] = errorResponse("createFormationWorkflow",
                                           "Unsupported state")

(***************************************************************************)
(* C15.  A step of an executeWorkflowStep call on one workflow leaves the  *)
(* stored record of every other workflow (workflow_data and status) as it  *)
(* was.                                                                    *)
(***************************************************************************)
OtherWorkflowsUnchanged ==
    [][ \A c \in Calls :
          ( pc'[c] # pc[c] /\ callWorkflowId'[c] # "none" )
          => \A w \in WorkflowIds \ { callWorkflowId'[c] } :
               /\ workflow_data'[w] = workflow_data[w]
               /\ row_status'[w] = row_status[w] ]_vars

(* A call on a second workflow has stored its step as completed. *)
SecondWorkflowStepStoredReached ==
    \E c \in Calls :
        /\ response[c] = "Executed: step completed"
        /\ callWorkflowId[c] \notin SeedWorkflowIds
        /\ workflow_data[callWorkflowId[c]].steps[callStepId[c]] = "completed"
        /\ \E w \in SeedWorkflowIds : workflow_data[w].steps = lastStepPending

(***************************************************************************)
(* Vocabulary of the monitor properties.                                   *)
(***************************************************************************)
Range(seq) == { seq[k] : k \in 1..Len(seq) }

(* The call has returned a monitoring result. *)
MonitorDone(c) ==
    /\ pc[c] = "done"
    /\ apiResponse[c].op = "monitorCompliance"
    /\ apiResponse[c].success

(* The call has classified the events of a calendar. *)
HasReport(c) == pc[c] = "automating" \/ MonitorDone(c)

reportOf(c) == apiResponse[c].complianceReport

resultsOf(c) == Range(apiResponse[c].automationResults)

(* The stored calendar a report is about. *)
calendarOf(report) ==
    CHOOSE row \in Range(compliance_calendars) : row.id = report.calendarId

(* The sweep c2 classified its events after every execution of sweep c1. *)
LaterPass(c1, c2) ==
    \A r \in resultsOf(c1) :
        getTime(r.executionDate) < getTime(reportOf(c2).reportDate)

(* Each sweep classified its events before the other one executed its own. *)
Overlapping(c1, c2) ==
    /\ \A r \in resultsOf(c1) :
         getTime(reportOf(c2).reportDate) < getTime(r.executionDate)
    /\ \A r \in resultsOf(c2) :
         getTime(reportOf(c1).reportDate) < getTime(r.executionDate)

(* The event is inside its trigger window on the given day. *)
insideTriggerWindow(event, todayDate) ==
    /\ event.automatable
    /\ daysUntilDue(event, todayDate) >= 0
    /\ daysUntilDue(event, todayDate) <= event.automationTrigger

(***************************************************************************)
(* C21 as claimed.  Every event of a stored calendar is due at least       *)
(* automationTrigger days after the generation of the calendar.            *)
(***************************************************************************)
TriggerWindowAheadOfGeneration ==
    \A i \in Rows :
        \A event \in eventSet(compliance_calendars[i]) :
            event.automationTrigger
              <= daysUntilDue(event, compliance_calendars[i].createdDate)

(***************************************************************************)
(* C22 as claimed.  An event a monitor pass has executed with success is   *)
(* not executed by a later pass on the same calendar.                      *)
(***************************************************************************)
LaterPassDoesNotExecuteAgain ==
    \A c1, c2 \in Calls :
        ( /\ MonitorDone(c1) /\ MonitorDone(c2)
          /\ reportOf(c1).calendarId = reportOf(c2).calendarId
          /\ LaterPass(c1, c2) )
        => \A r1 \in resultsOf(c1), r2 \in resultsOf(c2) :
             r1.success => r2.eventId # r1.eventId

(***************************************************************************)
(* C23 as claimed.  Of two sweeps of one calendar that run at the same     *)
(* time, only one produces the successful preparation of an event.         *)
(***************************************************************************)
ConcurrentSweepsPrepareOnce ==
    \A c1, c2 \in Calls :
        ( /\ c1 # c2
          /\ MonitorDone(c1) /\ MonitorDone(c2)
          /\ reportOf(c1).calendarId = reportOf(c2).calendarId
          /\ Overlapping(c1, c2) )
        => \A r1 \in resultsOf(c1), r2 \in resultsOf(c2) :
             ( r1.success /\ r2.success ) => r2.eventId # r1.eventId

(***************************************************************************)
(* C24 as claimed.  The events a monitor pass hands to the executor are    *)
(* inside their trigger window: none of them is past its due date, and no  *)
(* executed event is in the overdue bucket of the report.                  *)
(***************************************************************************)
PastDueNeverDispatched ==
    \A c \in Calls :
        /\ pc[c] = "automating"
           => \A event \in Range(apiResponse[c].actionableEvents) :
                insideTriggerWindow(event, reportOf(c).reportDate)
        /\ MonitorDone(c)
           => \A r \in resultsOf(c) :
                r.eventId \notin Range(reportOf(c).overdue)

(***************************************************************************)
(* C25 as claimed.  An event that a pass has executed with success before  *)
(* its due date (the actioned event of the specification) is not in the    *)
(* overdue bucket of a later pass.                                         *)
(***************************************************************************)
ActionedNeverOverdue ==
    \A c1, c2 \in Calls :
        ( /\ MonitorDone(c1) /\ MonitorDone(c2)
          /\ reportOf(c1).calendarId = reportOf(c2).calendarId
          /\ LaterPass(c1, c2) )
        => \A r1 \in resultsOf(c1) :
             ( r1.success /\ r1.eventId \notin Range(reportOf(c1).overdue) )
             => r1.eventId \notin Range(reportOf(c2).overdue)

(***************************************************************************)
(* C26.  In every report the overdue bucket holds the events due before    *)
(* the report date and the upcoming bucket those due within 30 days; the   *)
(* status is NON_COMPLIANT exactly when the overdue bucket is not empty,   *)
(* otherwise ACTION_REQUIRED exactly when the upcoming bucket is not       *)
(* empty, otherwise COMPLIANT.                                             *)
(***************************************************************************)
ReportStatusFollowsBuckets ==
    \A c \in Calls :
        HasReport(c) =>
          LET report == reportOf(c)
              events == eventSet(calendarOf(report))
              days(event) == daysUntilDue(event, report.reportDate)
          IN  /\ Range(report.overdue) =
                   { event.id : event \in { e \in events : days(e) < 0 } }
              /\ Range(report.upcoming) =
                   { event.id : event \in
                       { e \in events : days(e) >= 0 /\ days(e) <= 30 } }
              /\ report.status = "NON_COMPLIANT" <=> report.overdue # << >>
              /\ report.status = "ACTION_REQUIRED"
                   <=> ( report.overdue = << >> /\ report.upcoming # << >> )
              /\ report.status = "COMPLIANT"
                   <=> ( report.overdue = << >> /\ report.upcoming = << >> )

(* A report with overdue and upcoming events at once. *)
ReportWithBothBucketsReached ==
    \E c \in Calls :
        /\ MonitorDone(c)
        /\ reportOf(c).overdue # << >>
        /\ reportOf(c).upcoming # << >>
        /\ reportOf(c).status = "NON_COMPLIANT"

(***************************************************************************)
(* C27.  A rejected execution is reported with the id of its event,        *)
(* success false and revenue 0; a monitor pass leaves the stored calendar  *)
(* as it was; and a pass classifying an event that an earlier pass failed  *)
(* to execute hands it to the executor again when the event is inside its  *)
(* trigger window, and returns a result for every event handed over.       *)
(***************************************************************************)
FailedExecutionIsRetried ==
    [][ \A c \in Calls :
          /\ ( pc[c] = "automating" /\ pc'[c] = "done"
               /\ apiResponse'[c].success )
             => /\ [ k \in 1..Len(apiResponse'[c].automationResults) |->
                       apiResponse'[c].automationResults[k].eventId ]
                     = eventIds(apiResponse[c].actionableEvents)
                /\ \A r \in Range(apiResponse'[c].automationResults) :
                     ~ r.success => r.revenue = 0
                /\ compliance_calendars' = compliance_calendars
          /\ ( pc[c] = "idle" /\ pc'[c] = "automating" )
             => /\ compliance_calendars' = compliance_calendars
                /\ \A d \in Calls \ { c } :
                     ( /\ MonitorDone(d)
                       /\ reportOf(d).calendarId =
                            apiResponse'[c].complianceReport.calendarId )
                     => \A r \in resultsOf(d) :
                          \A event \in eventSet(calendarOf(reportOf(d))) :
                            ( /\ ~ r.success
                              /\ event.id = r.eventId
                              /\ insideTriggerWindow(event, today) )
                            => event \in
                                 Range(apiResponse'[c].actionableEvents)
      ]_vars

(* A pass failed to execute an event inside its window, and a later pass *)
(* has executed the event.                                               *)
FailedEventExecutedAgainReached ==
    \E c1, c2 \in Calls :
        /\ MonitorDone(c1) /\ MonitorDone(c2)
        /\ reportOf(c1).calendarId = reportOf(c2).calendarId
        /\ LaterPass(c1, c2)
        /\ \E r1 \in resultsOf(c1), r2 \in resultsOf(c2) :
             /\ ~ r1.success /\ r1.revenue = 0
             /\ r2.eventId = r1.eventId /\ r2.success
             /\ \E event \in eventSet(calendarOf(reportOf(c1))) :
                  /\ event.id = r1.eventId
                  /\ insideTriggerWindow(event, reportOf(c1).reportDate)
                  /\ insideTriggerWindow(event, reportOf(c2).reportDate)

(***************************************************************************)
(* C28.  A successful execution only prepares: its action is the           *)
(* '..._prepared' outcome of the type of its event and its revenue the     *)
(* fixed fee of that type; a failed one has revenue 0; and no step of a    *)
(* monitor pass writes to a table.                                         *)
(***************************************************************************)
preparedOutcome ==
    [ annual_report    |-> [ action  |-> "annual_report_prepared",
                             revenue |-> 149 ],
      tax_filing       |-> [ action  |-> "tax_filing_prepared",
                             revenue |-> 299 ],
      license_renewal  |-> [ action  |-> "license_renewal_prepared",
                             revenue |-> 149 ],
      registered_agent |-> [ action  |-> "registered_agent_renewal_prepared",
                             revenue |-> 199 ] ]

ExecutorOnlyPrepares ==
    [][ \A c \in Calls :
          ( pc[c] = "automating" /\ pc'[c] = "done" )
          => /\ TablesUnchanged
             /\ apiResponse'[c].success
                => \A r \in Range(apiResponse'[c].automationResults) :
                     /\ r.success
                        => /\ r.eventType \in DOMAIN preparedOutcome
                           /\ r.action = preparedOutcome[r.eventType].action
                           /\ r.revenue = preparedOutcome[r.eventType].revenue
                     /\ ~ r.success => r.revenue = 0
      ]_vars

(* One pass has prepared an annual report, a tax filing and a renewal of *)
(* the registered agent.                                                 *)
PreparedOutcomesReached ==
    \E c \in Calls :
        /\ MonitorDone(c)
        /\ \A type \in { "annual_report", "tax_filing", "registered_agent" } :
             \E r \in resultsOf(c) : r.success /\ r.eventType = type

(***************************************************************************)
(* The game server, src/chittychain-game-server.js.  A handler reads its   *)
(* player, awaits the chain command and then updates the player, the       *)
(* achievements and the daily quests without a further await: a request    *)
(* takes a step when it is accepted and a step when its command resolves.  *)
(***************************************************************************)
PlayerIds == { "p1", "p2" }

(* Requests the server accepts in one run. *)
MaxRequests == 4

(* Lines 56-67: the rewards the handlers read. *)
XP_REWARDS ==
    [ mint_evidence |-> 25, verify_evidence |-> 15, audit_chain |-> 100,
      first_mint |-> 100, high_value_evidence |-> 50 ]

(* Lines 70-127: id and xp of each achievement, in the order of the array. *)
ACHIEVEMENTS ==
    << [ id |-> "first_mint",          xp |-> 100 ],
       [ id |-> "high_roller",         xp |-> 200 ],
       [ id |-> "streak_master",       xp |-> 300 ],
       [ id |-> "chain_guardian",      xp |-> 500 ],
       [ id |-> "evidence_master",     xp |-> 1000 ],
       [ id |-> "verification_expert", xp |-> 750 ],
       [ id |-> "daily_champion",      xp |-> 500 ] >>

(* Lines 70-127: the condition of each achievement. *)
achievementCondition(id, player) ==
    CASE id = "first_mint"          -> player.totalMints >= 1
      [] id = "high_roller"         -> player.highestEvidenceValue >= 100000
      [] id = "streak_master"       -> player.currentStreak >= 7
      [] id = "chain_guardian"      -> player.totalAudits >= 1
      [] id = "evidence_master"     -> player.totalMints >= 100
      [] id = "verification_expert" -> player.totalVerifications >= 50
      [] id = "daily_champion"      -> player.dailyQuestsCompleted >= 3

(* Lines 325-338: the player getPlayer creates. *)
newPlayer(playerId) ==
    [ id |-> playerId, xp |-> 0, level |-> 1, totalMints |-> 0,
      totalVerifications |-> 0, totalAudits |-> 0, currentStreak |-> 0,
      highestEvidenceValue |-> 0, dailyQuestsCompleted |-> 0,
      achievements |-> {}, lastActive |-> today, joinedAt |-> today ]

(* getPlayer, lines 323-341: the players map after the call. *)
getPlayer(playerId) ==
    IF playerId \in DOMAIN players THEN players
    ELSE players @@ (playerId :> newPlayer(playerId))

(* Lines 343-345. *)
calculateLevel(xp) == (xp \div 200) + 1

(* Variant: the condition alone unlocks, held or not. *)
unlocksWheneverConditionHolds(player, achievement) ==
    achievementCondition(achievement.id, player)

(* Line 351: the test of checkAchievements. *)
unlocks(player, achievement) ==
    /\ achievement.id \notin player.achievements
    /\ achievementCondition(achievement.id, player)

(* checkAchievements, lines 347-363: the loop from achievement k on. *)
RECURSIVE checkAchievementsFrom(_, _, _)
checkAchievementsFrom(k, player, newAchievements) ==
    IF k > Len(ACHIEVEMENTS)
      THEN [ player |-> player, newAchievements |-> newAchievements ]
    ELSE IF unlocks(player, ACHIEVEMENTS[k])
      THEN checkAchievementsFrom(
             k + 1,
             [ player EXCEPT !.achievements = @ \cup { ACHIEVEMENTS[k].id },
                             !.xp = @ + ACHIEVEMENTS[k].xp ],
             Append(newAchievements, ACHIEVEMENTS[k].id))
    ELSE checkAchievementsFrom(k + 1, player, newAchievements)

checkAchievements(player) == checkAchievementsFrom(1, player, << >>)

(* Lines 49-53 and 372-383: the quest an action advances, its maxProgress *)
(* and its reward.                                                        *)
questOfAction == [ mint |-> "mint_3", verify |-> "verify_5", audit |-> "audit_chain" ]
questMaxProgress == [ mint_3 |-> 3, verify_5 |-> 5, audit_chain |-> 1 ]
questReward == [ mint_3 |-> 150, verify_5 |-> 100, audit_chain |-> 200 ]

(***************************************************************************)
(* updateDailyQuests, lines 365-405: the quest of the action advances by   *)
(* one while it is below its maxProgress; reaching it awards the reward    *)
(* to the player.                                                         *)
(***************************************************************************)
updateDailyQuests(action, quests, player) ==
    LET quest == questOfAction[action]
        completes == quests[quest] + 1 = questMaxProgress[quest]
    IN  IF quests[quest] < questMaxProgress[quest]
          THEN [ quests |-> [ quests EXCEPT ![quest] = @ + 1 ],
                 player |-> IF completes
                              THEN [ player EXCEPT
                                       !.xp = @ + questReward[quest],
                                       !.dailyQuestsCompleted = @ + 1 ]
                              ELSE player,
                 xpAwarded |-> IF completes THEN questReward[quest] ELSE 0 ]
          ELSE [ quests |-> quests, player |-> player, xpAwarded |-> 0 ]

(* What callers send as artifacts: each artifact is its amount in dollars, *)
(* 0 for an artifact with no amount.                                       *)
ArtifactLists ==
    { << >>, << 150000 >>, [ k \in 1..100 |-> 0 ] }

(* Lines 488-490: totalMints is the count after this request was added. *)
firstMintBonus(totalMints, artifacts) ==
    IF totalMints = Len(artifacts) THEN XP_REWARDS.first_mint ELSE 0

(* Lines 475-485: the bonus of the artifacts worth more than $50,000. *)
highValueBonus(artifacts) ==
    XP_REWARDS.high_value_evidence
      * Cardinality({ k \in 1..Len(artifacts) : artifacts[k] > 50000 })

(* Lines 472-490: the XP a successful mint request gains. *)
mintXP(player, artifacts) ==
    XP_REWARDS.mint_evidence * Len(artifacts)
      + highValueBonus(artifacts)
      + firstMintBonus(player.totalMints + Len(artifacts), artifacts)

(* Lines 466-493: the player after the stats and the XP of a mint. *)
mintedPlayer(player, artifacts) ==
    LET values == { artifacts[k] : k \in 1..Len(artifacts) }
                    \cup { player.highestEvidenceValue }
    IN  [ player EXCEPT
            !.totalMints = @ + Len(artifacts),
            !.currentStreak = @ + 1,
            !.lastActive = today,
            !.highestEvidenceValue =
                CHOOSE highest \in values : \A v \in values : v <= highest,
            !.xp = @ + mintXP(player, artifacts),
            !.level = calculateLevel(player.xp + mintXP(player, artifacts)) ]

(* Lines 539-544. *)
verifiedPlayer(player, artifacts) ==
    [ player EXCEPT
        !.totalVerifications = @ + Len(artifacts),
        !.lastActive = today,
        !.xp = @ + XP_REWARDS.verify_evidence * Len(artifacts),
        !.level = calculateLevel(
                    player.xp + XP_REWARDS.verify_evidence * Len(artifacts)) ]

(* Lines 581-586. *)
auditedPlayer(player) ==
    [ player EXCEPT
        !.totalAudits = @ + 1,
        !.lastActive = today,
        !.xp = @ + XP_REWARDS.audit_chain,
        !.level = calculateLevel(player.xp + XP_REWARDS.audit_chain) ]

SlotFree(r) == gameCalls[r].phase = "free"

(* The handler starts: getPlayer, then the await of the chain command. *)
Accept(r, op, playerId, artifacts) ==
    /\ SlotFree(r)
    /\ requestCount < MaxRequests
    /\ requestCount' = requestCount + 1
    /\ players' = getPlayer(playerId)
    /\ gameCalls' = [ gameCalls EXCEPT ![r] =
                        [ op |-> op, playerId |-> playerId,
                          artifacts |-> artifacts, phase |-> "await" ] ]
    /\ UNCHANGED dailyQuests
    /\ UNCHANGED << workflowVars, complianceVars, formationVars >>

(* The command succeeded: achievements and quests; the response is sent *)
(* and the request is over.                                             *)
rewarded(action, player, quests) ==
    updateDailyQuests(action, quests, checkAchievements(player).player)

Reward(r, action, player) ==
    LET quested == rewarded(action, player, dailyQuests)
    IN  /\ players' = [ players EXCEPT ![gameCalls[r].playerId] = quested.player ]
        /\ dailyQuests' = quested.quests
        /\ gameCalls' = [ gameCalls EXCEPT ![r] = NoRequest ]

(* The command failed: the 400 response is sent, nothing else changes. *)
Refuse(r) ==
    /\ gameCalls' = [ gameCalls EXCEPT ![r] = NoRequest ]
    /\ UNCHANGED << players, dailyQuests >>

Awaits(r, op) == gameCalls[r].op = op /\ gameCalls[r].phase = "await"

(* POST /api/evidence/mint, lines 457-528. *)
MintRequest(r, playerId, artifacts) == Accept(r, "mint", playerId, artifacts)

MintResolves(r) ==
    /\ Awaits(r, "mint")
    /\ \/ Reward(r, "mint",
                 mintedPlayer(players[gameCalls[r].playerId],
                              gameCalls[r].artifacts))
       \/ Refuse(r)
    /\ UNCHANGED requestCount
    /\ UNCHANGED << workflowVars, complianceVars, formationVars >>

(* POST /api/evidence/verify, lines 531-570. *)
VerifyRequest(r, playerId, artifacts) == Accept(r, "verify", playerId, artifacts)

VerifyResolves(r) ==
    /\ Awaits(r, "verify")
    /\ \/ Reward(r, "verify",
                 verifiedPlayer(players[gameCalls[r].playerId],
                                gameCalls[r].artifacts))
       \/ Refuse(r)
    /\ UNCHANGED requestCount
    /\ UNCHANGED << workflowVars, complianceVars, formationVars >>

(* POST /api/chain/audit, lines 573-612. *)
AuditRequest(r, playerId) == Accept(r, "audit", playerId, << >>)

AuditResolves(r) ==
    /\ Awaits(r, "audit")
    /\ \/ Reward(r, "audit", auditedPlayer(players[gameCalls[r].playerId]))
       \/ Refuse(r)
    /\ UNCHANGED requestCount
    /\ UNCHANGED << workflowVars, complianceVars, formationVars >>

(* GET /api/player/:id and join_game, lines 410-422 and 616-624: getPlayer *)
(* creates the player.                                                     *)
JoinGame(playerId) ==
    /\ playerId \notin DOMAIN players
    /\ players' = getPlayer(playerId)
    /\ UNCHANGED << dailyQuests, gameCalls, requestCount >>
    /\ UNCHANGED << workflowVars, complianceVars, formationVars >>

(* resetDailyQuests, lines 647-660, at midnight. *)
ResetDailyQuests ==
    /\ dailyQuests' = noQuestProgress
    /\ players' = [ p \in DOMAIN players |->
                      [ players[p] EXCEPT !.dailyQuestsCompleted = 0 ] ]
    /\ UNCHANGED << gameCalls, requestCount >>
    /\ UNCHANGED << workflowVars, complianceVars, formationVars >>

GameNext ==
    \/ \E r \in GameCalls :
         \/ \E playerId \in PlayerIds :
              \/ \E artifacts \in ArtifactLists :
                   \/ MintRequest(r, playerId, artifacts)
                   \/ VerifyRequest(r, playerId, artifacts)
              \/ AuditRequest(r, playerId)
         \/ MintResolves(r)
         \/ VerifyResolves(r)
         \/ AuditResolves(r)
    \/ \E playerId \in PlayerIds : JoinGame(playerId)
    \/ ResetDailyQuests

GameStart ==
    /\ StepEngineIdle([ s \in StepIds |-> "pending" ])
    /\ ComplianceInit
    /\ timezone = 0
    /\ GameIdle
    /\ FormationIdle

GameSpec == GameStart /\ [][GameNext]_vars

(***************************************************************************)
(* The mint handler over the days: one player has joined at the first     *)
(* instant of the clock and has made some successful mint requests of no   *)
(* artifact at that instant; mint requests and the clock go on from there. *)
(***************************************************************************)
SeedMints == 4

(* The player and the quests after k such requests. *)
RECURSIVE mintedTimes(_, _)
mintedTimes(playerId, k) ==
    IF k = 0
      THEN [ player |-> newPlayer(playerId), quests |-> noQuestProgress ]
      ELSE LET before == mintedTimes(playerId, k - 1)
           IN  rewarded("mint", mintedPlayer(before.player, << >>),
                        before.quests)

StreakStart ==
    /\ StepEngineIdle([ s \in StepIds |-> "pending" ])
    /\ ComplianceInit
    /\ timezone = 0
    /\ gameCalls = [ r \in GameCalls |-> NoRequest ]
    /\ requestCount = 0
    /\ FormationIdle
    /\ \E k \in 0..SeedMints :
         /\ players = ("p1" :> mintedTimes("p1", k).player)
         /\ dailyQuests = mintedTimes("p1", k).quests

StreakNext ==
    \/ \E r \in GameCalls :
         \/ \E playerId \in DOMAIN players, artifacts \in ArtifactLists :
              MintRequest(r, playerId, artifacts)
         \/ MintResolves(r)
    \/ ResetDailyQuests
    \/ TimePasses

StreakSpec == StreakStart /\ [][StreakNext]_vars

(***************************************************************************)
(* Vocabulary of the game properties.                                      *)
(***************************************************************************)
achievementXp(ids) ==
    LET indexes == { k \in 1..Len(ACHIEVEMENTS) : ACHIEVEMENTS[k].id \in ids }
        RECURSIVE sum(_)
        sum(rest) == IF rest = {} THEN 0
                     ELSE LET k == CHOOSE k \in rest : TRUE
                          IN  ACHIEVEMENTS[k].xp + sum(rest \ { k })
    IN  sum(indexes)

(* The request of slot r resolves with success in this step: its player *)
(* counts one more mint, verification request or audit.                 *)
Resolves(r) == gameCalls[r].phase = "await" /\ gameCalls'[r].phase = "free"

(* The XP the handler itself adds for the request of slot r. *)
requestXp(r) ==
    LET player == players[gameCalls[r].playerId]
        artifacts == gameCalls[r].artifacts
    IN  CASE gameCalls[r].op = "mint" -> mintXP(player, artifacts)
          [] gameCalls[r].op = "verify" ->
               XP_REWARDS.verify_evidence * Len(artifacts)
          [] gameCalls[r].op = "audit" -> XP_REWARDS.audit_chain

(* The reward of the quest this step completes, if it completes one. *)
questXp ==
    LET completed == { q \in DOMAIN questMaxProgress :
                         /\ dailyQuests[q] < questMaxProgress[q]
                         /\ dailyQuests'[q] = questMaxProgress[q] }
    IN  IF completed = {} THEN 0
        ELSE questReward[CHOOSE q \in completed : TRUE]

(***************************************************************************)
(* C29.  A player never loses an achievement, so each is unlocked at most  *)
(* once; and whenever a request changes a player, the XP the player gains  *)
(* beyond the XP of the request and of a completed quest is the XP of the  *)
(* achievements unlocked in that step, each counted once.                  *)
(***************************************************************************)
AchievementUnlockedOnce ==
    [][ /\ \A p \in DOMAIN players :
             /\ p \in DOMAIN players'
             /\ players[p].achievements \subseteq players'[p].achievements
        /\ \A r \in GameCalls :
             ( Resolves(r) /\ players' # players )
             => LET p == gameCalls[r].playerId
                IN  /\ players'[p].xp - players[p].xp
                         = requestXp(r) + questXp
                           + achievementXp(players'[p].achievements
                                             \ players[p].achievements)
                    /\ \A q \in DOMAIN players \ { p } : players'[q] = players[q]
      ]_vars

(* A player holds first_mint and high_roller after two successful mint *)
(* requests and chain_guardian's audit: requests were rewarded while    *)
(* the condition of an achievement already held was true.               *)
SecondMintAfterUnlockReached ==
    \E p \in DOMAIN players :
        /\ "first_mint" \in players[p].achievements
        /\ "high_roller" \in players[p].achievements
        /\ players[p].currentStreak >= 2
        /\ players[p].totalAudits >= 1

(***************************************************************************)
(* C30 as claimed.  A successful mint request of a player who has had a    *)
(* successful mint request before gains no first_mint bonus: its XP is     *)
(* that of its artifacts alone.                                            *)
(***************************************************************************)
FirstMintBonusOnce ==
    [][ \A r \in GameCalls :
          LET p == gameCalls[r].playerId
          IN  ( /\ Resolves(r)
                /\ gameCalls[r].op = "mint"
                /\ players'[p].currentStreak = players[p].currentStreak + 1
                /\ players[p].currentStreak >= 1 )
              => players'[p].xp - players[p].xp
                   = XP_REWARDS.mint_evidence * Len(gameCalls[r].artifacts)
                     + highValueBonus(gameCalls[r].artifacts)
                     + questXp
                     + achievementXp(players'[p].achievements
                                       \ players[p].achievements)
      ]_vars

(***************************************************************************)
(* C40 as claimed.  When a request has been rewarded, the stored level of  *)
(* its player is floor(xp / 200) + 1 of the stored xp.                     *)
(***************************************************************************)
LevelMatchesXp ==
    [][ \A r \in GameCalls :
          ( Resolves(r) /\ players' # players )
          => players'[gameCalls[r].playerId].level
               = calculateLevel(players'[gameCalls[r].playerId].xp)
      ]_vars

(***************************************************************************)
(* C32.  The progress of every stored workflow is the number of its        *)
(* completed steps over the number of its steps, times 100 (progress is    *)
(* kept multiplied by the number of steps).                                *)
(***************************************************************************)
StoredProgressMatchesSteps ==
    \A w \in WorkflowIds :
        workflow_data[w].progress
          = 100 * Cardinality({ s \in StepIds :
                                  workflow_data[w].steps[s] = "completed" })

(* A call has stored a completed step in a workflow that also holds a *)
(* failed step.                                                       *)
ProgressStoredReached ==
    \E c \in Calls :
        /\ pc[c] = "done"
        /\ response[c] = "Executed: step completed"
        /\ callWorkflowId[c] \in WorkflowIds
        /\ workflow_data[callWorkflowId[c]].steps[callStepId[c]] = "completed"
        /\ \E s \in StepIds :
             workflow_data[callWorkflowId[c]].steps[s] = "failed"
        /\ workflow_data[callWorkflowId[c]].progress > 100
        /\ workflow_data[callWorkflowId[c]].progress < 100 * NumSteps

(***************************************************************************)
(* Lines 224, 230, 311-317 and 320-325: the success field of each response *)
(* of executeWorkflowStep.                                                 *)
(***************************************************************************)
responseSuccess(resp) ==
    resp \in { "Executed: step completed", "Executed: step failed",
               "Step already completed" }

(***************************************************************************)
(* C36 as claimed.  A call returns success true only when the stored       *)
(* status of its step is completed.                                        *)
(***************************************************************************)
SuccessMeansStepCompleted ==
    [][ \A c \in Calls :
          ( /\ pc[c] # "done" /\ pc'[c] = "done"
            /\ callWorkflowId'[c] \in WorkflowIds
            /\ callStepId'[c] \in StepIds
            /\ responseSuccess(response'[c]) )
          => workflow_data'[callWorkflowId'[c]].steps[callStepId'[c]]
               = "completed"
      ]_vars

(***************************************************************************)
(* C33 as claimed.  In every report, each event due strictly before the    *)
(* instant of the report is in the overdue bucket, and each event of the   *)
(* upcoming bucket is due at or after that instant and at most 30 days     *)
(* after it.                                                               *)
(***************************************************************************)
PastDueIsOverdue ==
    \A c \in Calls :
        HasReport(c) =>
          \A event \in eventSet(calendarOf(reportOf(c))) :
              LET untilDue == getTime(event.dueDate)
                                - getTime(reportOf(c).reportDate)
              IN  /\ untilDue < 0 => event.id \in Range(reportOf(c).overdue)
                  /\ event.id \in Range(reportOf(c).upcoming)
                       => ( untilDue >= 0 /\ untilDue <= 30 * 24 )

(***************************************************************************)
(* C35.  The events of every stored calendar are in ascending order of     *)
(* due date, and the next-due event of the calendar is an event due after  *)
(* the creation of the calendar that no other such event precedes.         *)
(***************************************************************************)
CalendarSortedByDueDate ==
    \A i \in Rows :
        LET calendar == compliance_calendars[i]
            later == { event \in eventSet(calendar) :
                         getTime(event.dueDate) > getTime(calendar.createdDate) }
        IN  /\ \A k \in 1..(Len(calendar.events) - 1) :
                 getTime(calendar.events[k].dueDate)
                   <= getTime(calendar.events[k + 1].dueDate)
            /\ later # {} =>
                 \E next \in later :
                     /\ next.id = calendar.nextDueEvent
                     /\ \A event \in later :
                          getTime(next.dueDate) <= getTime(event.dueDate)

(* A stored calendar whose next-due event is not its first event and is *)
(* not the first generated event due after the creation either.         *)
CalendarWithPastEventsReached ==
    \E i \in Rows :
        LET calendar == compliance_calendars[i]
            generated == eventsOfYear(calendar.state, calendar.createdDate.year,
                                      calendar.formationDate, timezone)
        IN  /\ calendar.nextDueEvent # calendar.events[1].id
            /\ calendar.nextDueEvent
                 # nextDueEvent(generated, calendar.createdDate)
            /\ getTime(calendar.events[1].dueDate)
                 < getTime(calendar.createdDate)

(***************************************************************************)
(* C34.  The ranked revenue opportunities of a report are the upcoming and *)
(* overdue events with a revenue opportunity; every overdue one precedes   *)
(* every other one, and within each of the two groups the revenue          *)
(* opportunity never increases along the list.                             *)
(***************************************************************************)
OpportunitiesRankedOverdueFirst ==
    \A c \in Calls :
        HasReport(c) =>
          LET report == reportOf(c)
              ranked == report.revenueOpportunities
              isOverdue(k) == ranked[k].id \in Range(report.overdue)
          IN  /\ { ranked[k].id : k \in 1..Len(ranked) }
                   = { event.id : event \in
                         { e \in eventSet(calendarOf(report)) :
                             /\ e.revenueOpportunity > 0
                             /\ e.id \in Range(report.overdue)
                                           \cup Range(report.upcoming) } }
              /\ \A j, k \in 1..Len(ranked) :
                   j < k =>
                     /\ isOverdue(k) => isOverdue(j)
                     /\ ( isOverdue(j) <=> isOverdue(k) )
                          => ranked[j].revenueOpportunity
                               >= ranked[k].revenueOpportunity

(* A report ranks overdue and upcoming opportunities, and an overdue one *)
(* of lower revenue stands before an upcoming one of higher revenue.     *)
RankedBothGroupsReached ==
    \E c \in Calls :
        /\ HasReport(c)
        /\ \E j, k \in 1..Len(reportOf(c).revenueOpportunities) :
             LET ranked == reportOf(c).revenueOpportunities
             IN  /\ j < k
                 /\ ranked[j].id \in Range(reportOf(c).overdue)
                 /\ ranked[k].id \in Range(reportOf(c).upcoming)
                 /\ ranked[j].revenueOpportunity < ranked[k].revenueOpportunity

(***************************************************************************)
(* C37 as claimed.  A createFormationWorkflow call of a supported state    *)
(* computes an id that the record of no other call holds, and so does a    *)
(* createComplianceCalendar call, whatever the instant of the two calls.   *)
(***************************************************************************)
CreatedIdsDistinct ==
    [][ /\ \A c \in Calls, businessName \in BusinessNames,
              state \in WorkflowStates :
             CreateFormationWorkflow(c, businessName, state)
               => workflowIdOf(state, DateNow)
                    \notin (WorkflowIds \ SeedWorkflowIds)
        /\ \A c \in Calls, businessName \in CompanyNames,
              state \in SupportedStates, formationDate \in FormationDates :
             CreateComplianceCalendar(c, businessName, state, formationDate)
               => calendarIdOf(state, DateNow) \notin CalendarIds
      ]_vars

(***************************************************************************)
(* C31 as claimed.  A player who holds 'Streak Master' has minted on 7     *)
(* consecutive days: the last activity of the player is at least 6 days    *)
(* after the day the player joined.                                        *)
(***************************************************************************)
StreakMasterNeedsSevenDays ==
    \A p \in DOMAIN players :
        "streak_master" \in players[p].achievements
          => dayNumber(players[p].lastActive)
               - dayNumber(players[p].joinedAt) >= 6

(***************************************************************************)
(* LLCFormationEngine.executeWorkflowStep (src/llc_formation_engine.js,    *)
(* lines 357-448) on one formation project, the calls issued one after the *)
(* other.  The project is found, the step is looked up, the handler of the *)
(* step runs, the status of the step follows result.success and            *)
(* updateMemory stores the workflow.                                       *)
(***************************************************************************)
MaxFormationCalls == 4

(* The step ids a caller may pass. *)
FormationCallStepIds == FormationStepIds \cup { "unknown_step" }

(* Line 411. *)
formationStepStatus(success) == IF success THEN "completed" ELSE "failed"

(* Lines 359-440: the handler returns success or, from its catch, failure; *)
(* the workflow is stored with the new status of the step.                 *)
ExecuteFormationStep(stepId, success) ==
    /\ formationCalls < MaxFormationCalls
    /\ stepId \in FormationStepIds
    /\ formationCalls' = formationCalls + 1
    /\ stepRuns' = [ stepRuns EXCEPT ![stepId] = @ + 1 ]
    /\ formationWorkflow' =
         [ formationWorkflow EXCEPT ![stepId] = formationStepStatus(success) ]
    /\ UNCHANGED << workflowVars, complianceVars, gameVars >>

(* Lines 416-422 and 442-447: updateMemory rejects after the handler ran; *)
(* the catch returns the error and the stored workflow stays as it was.   *)
FormationUpdateThrows(stepId) ==
    /\ formationCalls < MaxFormationCalls
    /\ stepId \in FormationStepIds
    /\ formationCalls' = formationCalls + 1
    /\ stepRuns' = [ stepRuns EXCEPT ![stepId] = @ + 1 ]
    /\ UNCHANGED formationWorkflow
    /\ UNCHANGED << workflowVars, complianceVars, gameVars >>

(* Lines 376-378: no step has the id; the call throws before any handler. *)
FormationStepNotFound(stepId) ==
    /\ formationCalls < MaxFormationCalls
    /\ stepId \notin FormationStepIds
    /\ formationCalls' = formationCalls + 1
    /\ UNCHANGED << formationWorkflow, stepRuns >>
    /\ UNCHANGED << workflowVars, complianceVars, gameVars >>

FormationNext ==
    \E stepId \in FormationCallStepIds :
        \/ \E success \in BOOLEAN : ExecuteFormationStep(stepId, success)
        \/ FormationUpdateThrows(stepId)
        \/ FormationStepNotFound(stepId)

FormationStart ==
    /\ StepEngineIdle([ s \in StepIds |-> "pending" ])
    /\ ComplianceInit
    /\ timezone = 0
    /\ GameIdle
    /\ FormationIdle

FormationSpec == FormationStart /\ [][FormationNext]_vars

(***************************************************************************)
(* C39 as claimed.  A step of a formation project that is stored as        *)
(* completed stays completed, and its handler is not run again.            *)
(***************************************************************************)
CompletedFormationStepStays ==
    [][ \A s \in FormationStepIds :
          formationWorkflow[s] = "completed"
            => /\ formationWorkflow'[s] = "completed"
               /\ stepRuns'[s] = stepRuns[s]
      ]_vars

(***************************************************************************)
(* A caller drives one workflow to its end: every delegated work succeeds, *)
(* the store and the memory accept every write, and each call executes a   *)
(* step that is stored pending with all its dependencies completed; the    *)
(* caller awaits each call and then issues the next one.                   *)
(***************************************************************************)
Driver == CHOOSE c \in Calls : TRUE

executable(wf, stepId) ==
    /\ wf.steps[stepId] = "pending"
    /\ checkStepDependencies(wf, stepId)

DriveStep(c) ==
    \E workflowId \in WorkflowIds, stepId \in StepIds :
        /\ executable(workflow_data[workflowId], stepId)
        /\ BeginStep(c, workflowId, stepId)

WorkSucceeds(c) == ExecuteStep(c) /\ result'[c] = "success"

NextCall(c) ==
    /\ pc[c] = "done"
    /\ pc' = [ pc EXCEPT ![c] = "idle" ]
    /\ callWorkflowId' = [ callWorkflowId EXCEPT ![c] = "none" ]
    /\ callStepId' = [ callStepId EXCEPT ![c] = "none" ]
    /\ result' = [ result EXCEPT ![c] = "none" ]
    /\ response' = [ response EXCEPT ![c] = "none" ]
    /\ UNCHANGED << workflow_data, row_status, workflow, sideEffects >>
    /\ UNCHANGED << complianceVars, gameVars, formationVars >>

DriveNext ==
    \E c \in { Driver } :
        \/ DriveStep(c)
        \/ WorkSucceeds(c)
        \/ UpdateWorkflow(c)
        \/ CompleteWorkflow(c)
        \/ NextCall(c)

DriveStart ==
    /\ StepEngineIdle([ s \in StepIds |-> "pending" ])
    /\ ComplianceInit
    /\ timezone = 0
    /\ GameIdle
    /\ FormationIdle

DriveSpec ==
    /\ DriveStart
    /\ [][DriveNext]_vars
    /\ \A c \in { Driver } :
         /\ WF_vars(DriveStep(c))
         /\ WF_vars(WorkSucceeds(c))
         /\ WF_vars(UpdateWorkflow(c))
         /\ WF_vars(CompleteWorkflow(c))
         /\ WF_vars(NextCall(c))

(* stepId depends on depId through at most n entries of the table. *)
RECURSIVE dependsOn(_, _, _)
dependsOn(stepId, depId, n) ==
    /\ n > 0
    /\ \/ depId \in getStepDependencies(stepId)
       \/ \E via \in getStepDependencies(stepId) : dependsOn(via, depId, n - 1)

(* Every dependency names a step and no step depends on itself. *)
DependenciesWellFounded ==
    \A stepId \in StepIds :
        /\ getStepDependencies(stepId) \subseteq StepIds
        /\ ~ dependsOn(stepId, stepId, NumSteps)

WorkflowFinished(w) ==
    /\ \A s \in StepIds : workflow_data[w].steps[s] = "completed"
    /\ progressIs100(workflow_data[w])
    /\ row_status[w] = "completed"

====
